---- MODULE Spec2Model ----
(***************************************************************************)
(* Model of the File-Assistant core: the mover (collision-safe move with   *)
(* an undoable action log), the destination sanitization of the classifier *)
(* and of the processor's edit prompt, and the debounced watcher handler.  *)
(***************************************************************************)
EXTENDS Integers, Sequences, FiniteSets, TLC

(***************************************************************************)
(* Bounds of the model.                                                    *)
(***************************************************************************)
MaxOps == 3          \* calls of move / undo_move in one behaviour
MaxLen == 4          \* characters of a destination the LLM or operator gives
MaxEvents == 2       \* file events the observer delivers in one behaviour
MaxWrites == 2       \* size changes of watched files in one behaviour
MaxBatch == 3        \* files handed to one processing loop
MaxCalls == 3        \* calls on the index manager in one behaviour

(***************************************************************************)
(* Names and paths.  A file name is a sequence of tokens; the token Dot is *)
(* the character '.', every other token is a dot-free piece of text, and   *)
(* Cnt(n) is the text " (n)" that collision resolution formats.  A path is *)
(* a sequence of names (its segments), as pathlib keeps it: joining does   *)
(* not normalise "..", the file system resolves it on access.              *)
(***************************************************************************)
Tok(s) == [s |-> s, n |-> 0]
Cnt(n) == [s |-> " (n)", n |-> n]
Dot == Tok(".")
Seg(s) == <<Tok(s)>>
DotDot == <<Dot, Dot>>

NoPath == <<>>
NameOf(p) == IF p = <<>> THEN <<>> ELSE p[Len(p)]
Parent(p) == IF p = <<>> THEN <<>> ELSE SubSeq(p, 1, Len(p) - 1)

RECURSIVE CanonFrom(_, _, _)
CanonFrom(p, i, acc) ==
    IF i > Len(p) THEN acc
    ELSE IF p[i] = DotDot
         THEN CanonFrom(p, i + 1, Parent(acc))
         ELSE CanonFrom(p, i + 1, Append(acc, p[i]))

\* the file-system object a path denotes, ".." segments resolved
Canon(p) == CanonFrom(p, 1, <<>>)

\* index of the last '.' of a name, 0 when there is none (str.rfind)
RFindDot(name) ==
    LET S == {i \in 1..Len(name) : name[i] = Dot}
    IN  IF S = {} THEN 0 ELSE CHOOSE i \in S : \A j \in S : j <= i

\* PurePath.stem: the name up to its last suffix
Stem(name) ==
    LET i == RFindDot(name)
    IN  IF 1 < i /\ i < Len(name) THEN SubSeq(name, 1, i - 1) ELSE name

RECURSIVE LStripDots(_)
LStripDots(name) ==
    IF name # <<>> /\ Head(name) = Dot THEN LStripDots(Tail(name)) ELSE name

\* "".join(PurePath.suffixes): everything from the first inner '.' on
JoinedSuffixes(name) ==
    IF name # <<>> /\ name[Len(name)] = Dot THEN <<>>
    ELSE LET s == LStripDots(name)
             D == {i \in 1..Len(s) : s[i] = Dot}
         IN  IF D = {} THEN <<>>
             ELSE SubSeq(s, CHOOSE i \in D : \A j \in D : i <= j, Len(s))

(***************************************************************************)
(* The fixture: an inbox directory /src, the organized root /O with the    *)
(* folder Docs, and three files.                                           *)
(***************************************************************************)
organized_base_path == <<Seg("O")>>
SrcDir == <<Seg("src")>>
DocsDir == <<Seg("O"), Seg("Docs")>>
a_txt == <<Tok("a"), Dot, Tok("txt")>>
a_tar_gz == <<Tok("a"), Dot, Tok("tar"), Dot, Tok("gz")>>
missing_txt == <<Tok("missing"), Dot, Tok("txt")>>

InitFiles ==
    (Append(SrcDir, a_txt) :> 1) @@ (Append(SrcDir, a_tar_gz) :> 2) @@
    (Append(DocsDir, a_tar_gz) :> 3)
InitDirs == {<<>>, SrcDir, organized_base_path, DocsDir}

FolderArgs == {<<Seg("Docs")>>, <<Seg("Notes")>>, <<DotDot, Seg("src")>>}
MoveFaults == {"none", "mkdir", "move", "db"}
UndoFaults == {"none", "move", "db"}

VARIABLES
    files,      \* file system: canonical path of each regular file -> content
    dirs,       \* file system: canonical paths of the directories
    actions,    \* the action table, in id order (id = index)
    hasDb,      \* FileMover.db_session is not None
    now,        \* logical clock, one tick per call
    last        \* the call that just returned and its MoveResult

VARIABLES
    reply,      \* text waiting to be sanitized: the LLM's destination_folder
    dest,       \* destination_folder of the ClassificationResult / the edit
    stage       \* "reply" -> "classified" -> "edited"

VARIABLES
    pending,    \* DebouncedFileHandler._pending: path -> (timer, last size)
    fsize,      \* size of each watched file on disk, -1 when unreadable
    timers,     \* every threading.Timer created, in creation order
    lock,       \* holder of DebouncedFileHandler._lock: 0 free, -1 the
                \* observer thread, t > 0 the thread of timer t
    evt,        \* the observer thread: the handler call it is in
    mainpc,     \* the thread that stops the watcher
    calls,      \* invocations of the downstream callback, in order
    created,    \* per path, the created events that were scheduled
    nEvents,    \* events delivered so far
    nWrites     \* size changes so far

VARIABLES
    pmode,          \* the loop that drives process_file: "multiple" for
                    \* process_multiple, "run" for the run command's queue loop
    interactive,    \* process_file's interactive argument
    patched,        \* FileClassifier.classify is replaced by a double that
                    \* returns a ClassificationResult, as the tests do
    file_paths,     \* the files handed to the loop so far, in order
    taken,          \* how many of them the loop has taken
    run,            \* the process_file call in progress or just ended
    ppc,            \* position of the loop / of process_file
    results,        \* outcome of every process_file call that returned
    folder_context, \* FileProcessor._folder_context
    watcher_up,     \* run command: the watcher is running
    loop_end,       \* how the loop has ended, "running" until then
    classifications,\* the Classification rows: (file, status, final_destination)
    file_records    \* the File rows the processor wrote: (file, status)

VARIABLES
    response,       \* the LLM reply handed to _parse_response
    parse_out,      \* what the call has produced: a ClassificationResult
                    \* or the exception that left it
    parse_pc        \* "reply" before the call, "done" after it

VARIABLES
    collection,     \* the rows of the ChromaDB collection, in insertion order
    icalls,         \* calls made on the IndexManager so far
    ilast           \* the call that just returned

VARIABLES
    tree,           \* the extracted text of each candidate file, by position
    links,          \* per candidate, the position of the file it resolves to
                    \* (its own, unless it is a symbolic link to another)
    ipc,            \* "idle" between runs of index_command, "loop" inside one
    nruns,          \* runs started so far
    seed,           \* the string hash seed of the process of the run
    force,          \* the --force option of the run
    pos,            \* candidate files the loop of the run has gone through
    stats,          \* the four counters of the run
    outcomes,       \* the counter each file of the run went to
    faulted,        \* a failure was injected in the run
    nfaults,        \* failures injected so far
    changed,        \* files whose text changed since the last run
    session_new,    \* File rows added to the session, not yet committed
    db_files,       \* File rows of the database: (path, embedding_id)
    derived,        \* every (path, file_id) a run has derived
    reports         \* what each finished run reported, in order

VARIABLES
    max_retries,    \* OllamaClient.max_retries
    replies,        \* what each request of the generate call met, in order
    gen_out         \* what the generate call has produced, "running" until then

VARIABLES
    store_size,     \* how many entries of the collection match the where clause
    store_kind,     \* which metadata the entries of the collection carry
    squery,         \* the arguments of the search call that just returned
    hits            \* the list that call returned

VARIABLES
    fs_dirs,        \* the directories of the file system, as absolute paths
    fs_denied,      \* the directories whose listing raises PermissionError
    scan_args,      \* the arguments of the scan that just returned
    scan_result     \* the FolderScanResult it returned

moverVars == <<files, dirs, actions, hasDb, now, last>>
sanVars == <<reply, dest, stage>>
watcherVars == <<pending, fsize, timers, lock, evt, mainpc, calls, created,
                 nEvents, nWrites>>
procDb == <<classifications, file_records>>
procVars == <<pmode, interactive, patched, file_paths, taken, run, ppc, results,
              folder_context, watcher_up, loop_end, procDb>>
parseVars == <<response, parse_out, parse_pc>>
coreVars == <<moverVars, sanVars, watcherVars>>
indexVars == <<collection, icalls, ilast>>
driverVars == <<tree, links, ipc, nruns, seed, force, pos, stats, outcomes, faulted,
                nfaults, changed, session_new, db_files, derived, reports>>
ollamaVars == <<max_retries, replies, gen_out>>
searchVars == <<store_size, store_kind, squery, hits>>
scanVars == <<fs_dirs, fs_denied, scan_args, scan_result>>
lateVars == <<ollamaVars, searchVars, scanVars>>
extVars == <<procVars, parseVars, indexVars, driverVars, lateVars>>
notProc == <<coreVars, parseVars, indexVars, driverVars, lateVars>>
notParse == <<coreVars, procVars, indexVars, driverVars, lateVars>>
notIndex == <<coreVars, procVars, parseVars, driverVars, lateVars>>
notDriver == <<coreVars, procVars, parseVars, icalls, ilast, lateVars>>
notOllama == <<coreVars, procVars, parseVars, indexVars, driverVars, searchVars,
               scanVars>>
notSearch == <<coreVars, procVars, parseVars, indexVars, driverVars, ollamaVars,
               scanVars>>
notScan == <<coreVars, procVars, parseVars, indexVars, driverVars, ollamaVars,
             searchVars>>
vars == <<moverVars, sanVars, watcherVars, extVars>>

ExistsIn(fs, ds, p) == Canon(p) \in DOMAIN fs \/ Canon(p) \in ds
IsFileIn(fs, p) == Canon(p) \in DOMAIN fs
Without(f, k) == [q \in DOMAIN f \ {k} |-> f[q]]

\* every prefix of a canonical directory path (mkdir parents=True)
Prefixes(d) == {SubSeq(d, 1, i) : i \in 0..Len(d)}

ConflictLimit == 1000

\* the while loop of _resolve_conflict: the first counter from `counter` up
\* to the safety limit whose candidate does not exist, in closed form
Probe_OneFewer(fs, ds, destination, stem, suffixes, counter) ==
    LET new_path(c) == Append(Parent(destination), stem \o <<Cnt(c)>> \o suffixes)
        free(c) == ~ExistsIn(fs, ds, new_path(c))
        last_counter == ConflictLimit - 1
    IN  IF \E c \in counter..last_counter : free(c)
        THEN [ok |-> TRUE,
              path |-> new_path(CHOOSE c \in counter..last_counter :
                                    free(c) /\ \A k \in counter..(c - 1) : ~free(k))]
        ELSE [ok |-> FALSE, path |-> destination]

Probe(fs, ds, destination, stem, suffixes, counter) ==
    LET new_path(c) == Append(Parent(destination), stem \o <<Cnt(c)>> \o suffixes)
        free(c) == ~ExistsIn(fs, ds, new_path(c))
    IN  IF \E c \in counter..ConflictLimit : free(c)
        THEN [ok |-> TRUE,
              path |-> new_path(CHOOSE c \in counter..ConflictLimit :
                                    free(c) /\ \A k \in counter..(c - 1) : ~free(k))]
        ELSE [ok |-> FALSE, path |-> destination]

\* FileMover._resolve_conflict
ResolveConflict_NoCheck(fs, ds, destination) ==
    [ok |-> TRUE, path |-> destination]

ResolveConflict(fs, ds, destination) ==
    IF ~ExistsIn(fs, ds, destination) THEN [ok |-> TRUE, path |-> destination]
    ELSE Probe(fs, ds, destination, Stem(NameOf(destination)),
               JoinedSuffixes(NameOf(destination)), 1)

IsPrefix(s, p) == Len(s) <= Len(p) /\ SubSeq(p, 1, Len(s)) = s
Reprefix(p, s, d) ==
    IF IsPrefix(s, p) THEN d \o SubSeq(p, Len(s) + 1, Len(p)) ELSE p

\* shutil.move onto a free path: os.rename of a regular file, or of a
\* directory with everything below it
ShutilMove_CopyOnly(fs, ds, src, dst) ==
    [files |-> (Canon(dst) :> fs[Canon(src)]) @@ fs, dirs |-> ds]

ShutilMove(fs, ds, src, dst) ==
    IF Canon(src) \in DOMAIN fs
    THEN [files |-> (Canon(dst) :> fs[Canon(src)]) @@ Without(fs, Canon(src)),
          dirs |-> ds]
    ELSE [files |-> [q \in {Reprefix(p, Canon(src), Canon(dst)) : p \in DOMAIN fs}
                       |-> fs[CHOOSE p \in DOMAIN fs :
                                Reprefix(p, Canon(src), Canon(dst)) = q]],
          dirs |-> {Reprefix(p, Canon(src), Canon(dst)) : p \in ds}]

\* FileMover._record_action: the table and the id it returns (0 = None)
RecordAction_NoRollback(log, source, destination, action_type, existed, db, dbOk, t) ==
    IF ~db THEN [log |-> log, id |-> 0]
    ELSE [log |-> Append(log,
                    [action_type |-> action_type,
                     timestamp |-> t,
                     before_state |-> [path |-> source,
                                       filename |-> NameOf(source),
                                       existed |-> existed],
                     after_state |-> [path |-> destination,
                                      filename |-> NameOf(destination)],
                     undone |-> FALSE,
                     undone_at |-> 0]),
          id |-> IF dbOk THEN Len(log) + 1 ELSE 0]

RecordAction(log, source, destination, action_type, existed, db, dbOk, t) ==
    IF ~db \/ ~dbOk THEN [log |-> log, id |-> 0]
    ELSE [log |-> Append(log,
                    [action_type |-> action_type,
                     timestamp |-> t,
                     before_state |-> [path |-> source,
                                       filename |-> NameOf(source),
                                       existed |-> existed],
                     after_state |-> [path |-> destination,
                                      filename |-> NameOf(destination)],
                     undone |-> FALSE,
                     undone_at |-> 0]),
          id |-> Len(log) + 1]

Result(op, source, folder, id, success, error, sp, dp, fn, aid) ==
    [op |-> op, arg_source |-> source, arg_folder |-> folder, arg_id |-> id,
     success |-> success, error |-> error, source_path |-> sp,
     destination_path |-> dp, filename |-> fn, action_id |-> aid]

NoResult == Result("none", NoPath, NoPath, 0, FALSE, "", NoPath, NoPath, <<>>, 0)

\* the destination move() asks for before collision resolution
RequestedTarget(source, folder) ==
    Append(organized_base_path \o folder, NameOf(source))

\* a failure return of move(): the MoveResult carries success=False, and
\* nothing is recorded on the way out
MoveFailure_Recorded(fs, ds, log, source, folder, error, dp) ==
    [files |-> fs, dirs |-> ds,
     actions |-> RecordAction(log, source, dp, "move", TRUE, TRUE, TRUE, 0).log,
     result |-> Result("move", source, folder, 0, FALSE, error,
                       source, dp, NameOf(source), 0)]

MoveFailure(fs, ds, log, source, folder, error, dp) ==
    [files |-> fs, dirs |-> ds, actions |-> log,
     result |-> Result("move", source, folder, 0, FALSE, error,
                       source, dp, NameOf(source), 0)]

\* FileMover.move: the state and the MoveResult it leaves
MoveOutcome(source, folder, create_folders, fault) ==
    LET dest_folder == organized_base_path \o folder
        destination == Append(dest_folder, NameOf(source))
        fail(fs, ds, log, error, dp) ==
            MoveFailure(fs, ds, log, source, folder, error, dp)
    IN
    IF ~ExistsIn(files, dirs, source)
    THEN fail(files, dirs, actions, "source_not_found", source)
    ELSE IF ~IsFileIn(files, source)
    THEN fail(files, dirs, actions, "not_a_file", source)
    ELSE
    LET making == create_folders /\ ~ExistsIn(files, dirs, dest_folder) IN
    IF making /\ fault = "mkdir"
    THEN fail(files, dirs, actions, "mkdir_failed", destination)
    ELSE
    LET ds1 == IF making THEN dirs \cup Prefixes(Canon(dest_folder)) ELSE dirs
        log1 == IF making
                THEN RecordAction(actions, dest_folder, dest_folder,
                                  "create_folder", TRUE, hasDb,
                                  fault # "db", now + 1).log
                ELSE actions
        rc == ResolveConflict(files, ds1, destination)
    IN
    IF ~rc.ok
    THEN fail(files, ds1, log1, "too_many_conflicts", destination)
    ELSE IF fault = "move" \/ Canon(Parent(rc.path)) \notin ds1
    THEN fail(files, ds1, log1, "move_failed", rc.path)
    ELSE
    LET mv == ShutilMove(files, ds1, source, rc.path)
        rec == RecordAction(log1, source, rc.path, "move",
                            ExistsIn(mv.files, mv.dirs, source), hasDb,
                            fault # "db", now + 1)
    IN  [files |-> mv.files, dirs |-> mv.dirs, actions |-> rec.log,
         result |-> Result("move", source, folder, 0, TRUE, "", source,
                           rc.path, NameOf(rc.path), rec.id)]

\* the checks of undo_move before it touches anything; "" = go ahead
UndoPrecheck_NoTypeCheck(action_id) ==
    IF ~hasDb THEN "no_db"
    ELSE IF action_id \notin 1..Len(actions) THEN "action_not_found"
    ELSE IF actions[action_id].undone THEN "already_undone"
    ELSE IF ~ExistsIn(files, dirs, actions[action_id].after_state.path)
         THEN "current_missing"
    ELSE ""

UndoPrecheck(action_id) ==
    IF ~hasDb THEN "no_db"
    ELSE IF action_id \notin 1..Len(actions) THEN "action_not_found"
    ELSE IF actions[action_id].undone THEN "already_undone"
    ELSE IF actions[action_id].action_type # "move" THEN "not_undoable"
    ELSE IF ~ExistsIn(files, dirs, actions[action_id].after_state.path)
         THEN "current_missing"
    ELSE ""

\* the action row after undo_move has marked it
MarkUndone_FlagOnly(a, t) == [a EXCEPT !.undone_at = t]

MarkUndone_Rewrites(a, t) ==
    [a EXCEPT !.undone = TRUE, !.undone_at = t,
              !.before_state.path = a.after_state.path,
              !.after_state.path = a.before_state.path]

MarkUndone(a, t) == [a EXCEPT !.undone = TRUE, !.undone_at = t]

\* FileMover.undo_move: the state and the MoveResult it leaves
UndoOutcome(action_id, fault) ==
    LET pre == UndoPrecheck(action_id)
        same(result) == [files |-> files, dirs |-> dirs, actions |-> actions,
                         result |-> result]
    IN
    IF pre \in {"no_db", "action_not_found", "already_undone", "not_undoable"}
    THEN same(Result("undo", NoPath, NoPath, action_id, FALSE, pre,
                     NoPath, NoPath, <<>>, 0))
    ELSE
    LET current_path == actions[action_id].after_state.path
        original_path == actions[action_id].before_state.path
        failed(fs, ds) ==
            [files |-> fs, dirs |-> ds, actions |-> actions,
             result |-> Result("undo", NoPath, NoPath, action_id, FALSE,
                               "undo_failed", current_path, original_path,
                               NameOf(original_path), 0)]
    IN
    IF pre = "current_missing"
    THEN same(Result("undo", NoPath, NoPath, action_id, FALSE, pre,
                     current_path, original_path, NameOf(current_path), 0))
    ELSE
    LET ds1 == dirs \cup Prefixes(Canon(Parent(original_path)))
        rc == ResolveConflict(files, ds1, original_path)
    IN
    IF ~rc.ok \/ fault = "move" \/ ~ExistsIn(files, ds1, current_path)
    THEN failed(files, ds1)
    ELSE
    LET mv == ShutilMove(files, ds1, current_path, rc.path) IN
    IF fault = "db"
    THEN failed(mv.files, mv.dirs)
    ELSE [files |-> mv.files, dirs |-> mv.dirs,
          actions |-> [actions EXCEPT
                         ![action_id] = MarkUndone(@, now + 1)],
          result |-> Result("undo", NoPath, NoPath, action_id, TRUE, "",
                            current_path, rc.path, NameOf(rc.path),
                            action_id)]

BadSourceArgs == {Append(SrcDir, missing_txt), SrcDir}

InitMover ==
    /\ files = InitFiles
    /\ dirs = InitDirs
    /\ actions = <<>>
    /\ hasDb \in BOOLEAN
    /\ now = 0
    /\ last = NoResult

\* a destination folder in which a.txt and its candidates " (n)" for the
\* counters of one of these sets already exist
TakenCounters == {{}, {1, 3}, 1..(ConflictLimit - 1), 1..ConflictLimit}
CrowdedFiles(counters) ==
    [p \in {Append(DocsDir, <<Tok("a"), Cnt(c), Dot, Tok("txt")>>) : c \in counters}
        |-> 5]
    @@ (Append(DocsDir, a_txt) :> 4) @@ InitFiles
CrowdedSources == {Append(SrcDir, a_txt), Append(SrcDir, a_tar_gz)}

InitCrowdedMover ==
    /\ \E counters \in TakenCounters : files = CrowdedFiles(counters)
    /\ dirs = InitDirs
    /\ actions = <<>>
    /\ hasDb = TRUE
    /\ now = 0
    /\ last = NoResult

Move(source, folder, create_folders, fault) ==
    /\ now < MaxOps
    /\ LET o == MoveOutcome(source, folder, create_folders, fault)
       IN  /\ files' = o.files
           /\ dirs' = o.dirs
           /\ actions' = o.actions
           /\ last' = o.result
    /\ now' = now + 1
    /\ UNCHANGED <<hasDb, sanVars, watcherVars, extVars>>

UndoMove(action_id, fault) ==
    /\ now < MaxOps
    /\ LET o == UndoOutcome(action_id, fault)
       IN  /\ files' = o.files
           /\ dirs' = o.dirs
           /\ actions' = o.actions
           /\ last' = o.result
    /\ now' = now + 1
    /\ UNCHANGED <<hasDb, sanVars, watcherVars, extVars>>

(***************************************************************************)
(* Destination sanitization.  A destination is a string, modelled as the   *)
(* sequence of its characters over a small alphabet.                       *)
(***************************************************************************)
Chars == {"/", "\\", ".", "a"}
Strings == UNION {[1..n -> Chars] : n \in 0..MaxLen}
Unsorted == <<"U", "n", "s", "o", "r", "t", "e", "d">>

RECURSIVE LStrip(_, _)
LStrip(str, cs) ==
    IF str # <<>> /\ Head(str) \in cs THEN LStrip(Tail(str), cs) ELSE str

RECURSIVE RStrip(_, _)
RStrip(str, cs) ==
    IF str # <<>> /\ str[Len(str)] \in cs
    THEN RStrip(SubSeq(str, 1, Len(str) - 1), cs) ELSE str

\* str.strip(chars)
Strip_Once(str, cs) ==
    LET l == IF str # <<>> /\ Head(str) \in cs THEN Tail(str) ELSE str
    IN  IF l # <<>> /\ l[Len(l)] \in cs THEN SubSeq(l, 1, Len(l) - 1) ELSE l
Strip(str, cs) == RStrip(LStrip(str, cs), cs)

\* str.replace(old, new) for single characters
Replace(str, old, new) ==
    [i \in 1..Len(str) |-> IF str[i] = old THEN new ELSE str[i]]

\* destination.strip("/\\").replace("\\", "/")
StripAndReplace(str) == Replace(Strip(str, {"/", "\\"}), "\\", "/")

\* FileClassifier._parse_response, destination_folder
SanitizeDestination_StripOnly(str) ==
    LET d == Strip(str, {"/", "\\"}) IN IF d = <<>> THEN Unsorted ELSE d
SanitizeDestination(str) ==
    LET d == StripAndReplace(str) IN IF d = <<>> THEN Unsorted ELSE d

InitSanitize ==
    /\ reply \in Strings
    /\ dest = <<>>
    /\ stage = "reply"

\* the classifier parses the reply and sanitizes its destination_folder
ParseResponse ==
    /\ stage = "reply"
    /\ dest' = SanitizeDestination(reply)
    /\ reply' = <<>>
    /\ stage' = "classified"
    /\ UNCHANGED <<moverVars, watcherVars, extVars>>

\* the operator chooses edit and types new_dest: an empty result prompts
\* again, anything else is returned as the edited destination
GetUserDecisionEdit(new_dest) ==
    /\ stage = "classified"
    /\ IF StripAndReplace(new_dest) # <<>>
       THEN /\ dest' = StripAndReplace(new_dest)
            /\ stage' = "edited"
       ELSE UNCHANGED <<dest, stage>>
    /\ UNCHANGED <<reply, moverVars, watcherVars, extVars>>

(***************************************************************************)
(* The debounced handler of the watcher.  Its threads are the observer     *)
(* thread that delivers the events, one thread per threading.Timer, and    *)
(* the thread that stops the watcher.  A critical section of _lock is one  *)
(* step; a thread that asks for the lock it already holds (threading.Lock  *)
(* is not reentrant) keeps the lock and stays blocked.                     *)
(***************************************************************************)
a_tmp == <<Tok("a"), Dot, Tok("tmp")>>
b_md == <<Tok("b"), Dot, Tok("md")>>
EventPaths == {a_txt, b_md, a_tmp}
FileSizes == {-1, 1, 2}

IGNORED_EXTENSIONS == {<<Dot, Tok("tmp")>>, <<Dot, Tok("part")>>, <<Dot, Tok("bak")>>}
IGNORED_PATTERNS == {<<Dot, Tok("DS_Store")>>, <<Tok("Thumbs"), Dot, Tok("db")>>}
SUPPORTED_EXTENSIONS ==
    {<<Dot, Tok("txt")>>, <<Dot, Tok("md")>>, <<Dot, Tok("pdf")>>, <<Dot, Tok("docx")>>}

\* PurePath.suffix
Suffix(name) ==
    LET i == RFindDot(name)
    IN  IF 1 < i /\ i < Len(name) THEN SubSeq(name, i, Len(name)) ELSE <<>>

ShouldIgnore(path) ==
    \/ path # <<>> /\ Head(path) = Dot
    \/ path \in IGNORED_PATTERNS
    \/ Suffix(path) \in IGNORED_EXTENSIONS
    \/ path # <<>> /\ path[Len(path)] = Tok("~")

IsSupported(path) == Suffix(path) \in SUPPORTED_EXTENSIONS

Tracked == {p \in EventPaths : ~ShouldIgnore(p) /\ IsSupported(p)}

NoEntry == [timer |-> 0, size |-> -1]
EvtIdle == [op |-> "none", path |-> <<>>, pc |-> "idle"]

\* threading.Timer.cancel: a timer still waiting never runs its function,
\* one that has begun to run it is not stopped
Cancel(tms, t) ==
    IF t \in 1..Len(tms) /\ tms[t].st = "waiting"
    THEN [tms EXCEPT ![t].st = "cancelled"] ELSE tms

\* the critical section of _schedule_callback
Schedule(pend, tms, sizes, p) ==
    LET tms1 == IF pend[p] # NoEntry THEN Cancel(tms, pend[p].timer) ELSE tms
        timer == Len(tms1) + 1
    IN  [pending |-> [pend EXCEPT ![p] = [timer |-> timer, size |-> sizes[p]]],
         timers |-> Append(tms1, [path |-> p, st |-> "waiting", entry |-> 0])]

\* the critical section of check_and_process up to the point where it
\* returns, reschedules or leaves the lock to call the callback
CheckAndProcess_KeepEntry(pend, sizes, p) ==
    IF pend[p] = NoEntry THEN [pending |-> pend, branch |-> "untracked", entry |-> 0]
    ELSE IF sizes[p] = -1
    THEN [pending |-> [pend EXCEPT ![p] = NoEntry], branch |-> "vanished", entry |-> 0]
    ELSE IF sizes[p] # pend[p].size
    THEN [pending |-> [pend EXCEPT ![p] = NoEntry], branch |-> "changed", entry |-> 0]
    ELSE [pending |-> pend, branch |-> "stable", entry |-> pend[p].timer]

CheckAndProcess(pend, sizes, p) ==
    IF pend[p] = NoEntry THEN [pending |-> pend, branch |-> "untracked", entry |-> 0]
    ELSE IF sizes[p] = -1
    THEN [pending |-> [pend EXCEPT ![p] = NoEntry], branch |-> "vanished", entry |-> 0]
    ELSE IF sizes[p] # pend[p].size
    THEN [pending |-> [pend EXCEPT ![p] = NoEntry], branch |-> "changed", entry |-> 0]
    ELSE [pending |-> [pend EXCEPT ![p] = NoEntry], branch |-> "stable",
          entry |-> pend[p].timer]

InitWatcher ==
    /\ pending = [p \in Tracked |-> NoEntry]
    /\ fsize \in [Tracked -> {1}]
    /\ timers = <<>>
    /\ lock = 0
    /\ evt = EvtIdle
    /\ mainpc = "watching"
    /\ calls = <<>>
    /\ created = [p \in Tracked |-> 0]
    /\ nEvents = 0
    /\ nWrites = 0

\* the observer thread calls on_created: a directory event, an ignored or an
\* unsupported file returns at once, anything else enters _schedule_callback
OnCreated(path, is_directory) ==
    /\ evt = EvtIdle /\ mainpc # "stopped" /\ nEvents < MaxEvents
    /\ nEvents' = nEvents + 1
    /\ evt' = IF is_directory \/ ShouldIgnore(path) \/ ~IsSupported(path)
              THEN EvtIdle
              ELSE [op |-> "created", path |-> path, pc |-> "lock"]
    /\ UNCHANGED <<pending, fsize, timers, lock, mainpc, calls, created, nWrites,
                   moverVars, sanVars, extVars>>

\* _schedule_callback, called from on_created, gets the lock
CreatedSchedule ==
    /\ evt.op = "created" /\ evt.pc = "lock" /\ lock = 0
    /\ LET r == Schedule(pending, timers, fsize, evt.path)
       IN  pending' = r.pending /\ timers' = r.timers
    /\ created' = [created EXCEPT ![evt.path] = @ + 1]
    /\ evt' = EvtIdle
    /\ UNCHANGED <<fsize, lock, mainpc, calls, nEvents, nWrites, moverVars, sanVars, extVars>>

\* the observer thread calls on_modified
OnModified(path, is_directory) ==
    /\ evt = EvtIdle /\ mainpc # "stopped" /\ nEvents < MaxEvents
    /\ nEvents' = nEvents + 1
    /\ evt' = IF is_directory \/ ShouldIgnore(path) \/ ~IsSupported(path)
              THEN EvtIdle
              ELSE [op |-> "modified", path |-> path, pc |-> "lock"]
    /\ UNCHANGED <<pending, fsize, timers, lock, mainpc, calls, created, nWrites,
                   moverVars, sanVars, extVars>>

\* on_modified gets the lock; for a tracked path it calls _schedule_callback
\* with the lock held, which asks for the lock again
ModifiedCheck ==
    /\ evt.op = "modified" /\ evt.pc = "lock" /\ lock = 0
    /\ IF pending[evt.path] # NoEntry
       THEN lock' = -1 /\ evt' = [evt EXCEPT !.pc = "blocked"]
       ELSE lock' = 0 /\ evt' = EvtIdle
    /\ UNCHANGED <<pending, fsize, timers, mainpc, calls, created, nEvents, nWrites,
                   moverVars, sanVars, extVars>>

\* the interval of a timer ends before it was cancelled: its thread calls
\* check_and_process
TimerExpire(t) ==
    /\ timers[t].st = "waiting"
    /\ timers' = [timers EXCEPT ![t].st = "fired"]
    /\ UNCHANGED <<pending, fsize, lock, evt, mainpc, calls, created, nEvents,
                   nWrites, moverVars, sanVars, extVars>>

\* check_and_process gets the lock; when the size has changed it calls
\* _schedule_callback with the lock held, which asks for the lock again
TimerCheck_NoLock(t) ==
    /\ timers[t].st = "fired"
    /\ LET r == CheckAndProcess(pending, fsize, timers[t].path)
       IN  /\ pending' = r.pending
           /\ lock' = IF r.branch = "changed" /\ lock = 0 THEN t ELSE lock
           /\ timers' = [timers EXCEPT
                ![t].st = CASE r.branch = "changed" -> "blocked"
                            [] r.branch = "stable" -> "callback"
                            [] OTHER -> "done",
                ![t].entry = r.entry]
    /\ UNCHANGED <<fsize, evt, mainpc, calls, created, nEvents, nWrites,
                   moverVars, sanVars, extVars>>

TimerCheck(t) ==
    /\ timers[t].st = "fired" /\ lock = 0
    /\ LET r == CheckAndProcess(pending, fsize, timers[t].path)
       IN  /\ pending' = r.pending
           /\ lock' = IF r.branch = "changed" THEN t ELSE 0
           /\ timers' = [timers EXCEPT
                ![t].st = CASE r.branch = "changed" -> "blocked"
                            [] r.branch = "stable" -> "callback"
                            [] OTHER -> "done",
                ![t].entry = r.entry]
    /\ UNCHANGED <<fsize, evt, mainpc, calls, created, nEvents, nWrites,
                   moverVars, sanVars, extVars>>

\* check_and_process calls the downstream callback, outside the lock
TimerCallback(t) ==
    /\ timers[t].st = "callback"
    /\ calls' = Append(calls, [path |-> timers[t].path, timer |-> t,
                               entry |-> timers[t].entry,
                               created |-> created[timers[t].path]])
    /\ timers' = [timers EXCEPT ![t].st = "done"]
    /\ UNCHANGED <<pending, fsize, lock, evt, mainpc, created, nEvents, nWrites,
                   moverVars, sanVars, extVars>>

\* FileWatcher.stop is called and calls handler.stop()
StopCall ==
    /\ mainpc = "watching"
    /\ mainpc' = "stopping"
    /\ UNCHANGED <<pending, fsize, timers, lock, evt, calls, created, nEvents,
                   nWrites, moverVars, sanVars, extVars>>

RECURSIVE CancelAll(_, _)
CancelAll(tms, ts) ==
    IF ts = {} THEN tms
    ELSE LET t == CHOOSE x \in ts : TRUE IN CancelAll(Cancel(tms, t), ts \ {t})

\* DebouncedFileHandler.stop gets the lock, cancels the timers of the map
\* and clears the map
HandlerStop ==
    /\ mainpc = "stopping" /\ lock = 0
    /\ timers' = CancelAll(timers, {pending[p].timer : p \in Tracked} \ {0})
    /\ pending' = [p \in Tracked |-> NoEntry]
    /\ mainpc' = "handler_stopped"
    /\ UNCHANGED <<fsize, lock, evt, calls, created, nEvents, nWrites,
                   moverVars, sanVars, extVars>>

\* FileWatcher.stop stops the observer and joins it (for at most 5 s, so a
\* handler call that cannot get the lock does not hold it up) and returns
ObserverStop ==
    /\ mainpc = "handler_stopped"
    /\ evt = EvtIdle \/ lock # 0
    /\ mainpc' = "stopped"
    /\ UNCHANGED <<pending, fsize, timers, lock, evt, calls, created, nEvents,
                   nWrites, moverVars, sanVars, extVars>>

\* a writer outside the program changes the size of a watched file, or
\* removes the file
Write(path, size) ==
    /\ nWrites < MaxWrites /\ size # fsize[path]
    /\ fsize' = [fsize EXCEPT ![path] = size]
    /\ nWrites' = nWrites + 1
    /\ UNCHANGED <<pending, timers, lock, evt, mainpc, calls, created, nEvents,
                   moverVars, sanVars, extVars>>

(***************************************************************************)
(* The processor.  process_file runs one file through analyze, folder      *)
(* scan, classify and display; process_multiple and the run command's      *)
(* queue loop call it once per file.  A file is modelled by what the       *)
(* analyzer makes of it.  The call of classify passes folder_context,      *)
(* which FileClassifier.classify does not accept, and the display reads    *)
(* is_new_folder, which ClassificationResult does not have: both raise,    *)
(* so no call of process_file gets past the display to the decision        *)
(* prompt or to the mover.                                                 *)
(***************************************************************************)
FileKinds == {"missing", "readable"}
Batches == UNION {[1..n -> FileKinds] : n \in 1..MaxBatch}

\* (the run command starts with an empty queue; the watcher fills it)

\* a ProcessingResult in the making, with the stage results it holds
\* what the operator answers when _get_user_decision prompts; none when
\* the call is not interactive
Answers(isInteractive) ==
    IF isInteractive THEN {"accept", "edit", "skip"} ELSE {"none"}

\* the decision the call is to act on: the answer, accept when not
\* interactive
DecisionOf(r) == IF r.answer = "none" THEN "accept" ELSE r.answer

NewRun(kind, answer) ==
    [kind |-> kind, answer |-> answer, analysis |-> "none",
     classification |-> "none", user_decision |-> "none", prompted |-> FALSE,
     move_result |-> "none", outcome |-> "running"]
NoRun == NewRun("none", "none")

\* the path the loop takes next: file_queue.get() of the FIFO queue, the
\* next element of the list
QueueGet_Newest(paths, n) == paths[Len(paths)]

QueueGet(paths, n) == paths[n + 1]

\* FileAnalyzer.analyze: a result with success false for a file that is not
\* there, a result with success true for a readable one
AnalyzeOutcome(kind) == IF kind = "missing" THEN "failed" ELSE "ok"

\* self.classifier.classify(analysis, folder_context=...): FileClassifier's
\* classify(self, analysis) raises TypeError on the keyword; a double put in
\* its place returns the ClassificationResult it was given
ClassifyOutcomes(isPatched) ==
    IF isPatched THEN {"ok", "failed"} ELSE {"raised"}

\* the return of process_file after a failed stage
StageFailed(r, next) ==
    [pc |-> "return", run |-> [r EXCEPT !.outcome = "errored"]]

InitProcessor ==
    /\ pmode \in {"multiple", "run"}
    /\ interactive \in IF pmode = "run" THEN {TRUE} ELSE BOOLEAN
    /\ patched \in BOOLEAN
    /\ file_paths \in IF pmode = "run" THEN {<<>>} ELSE Batches
    /\ taken = 0
    /\ run = NoRun
    /\ ppc = "loop"
    /\ results = <<>>
    /\ folder_context = "none"
    /\ watcher_up = (pmode = "run")
    /\ loop_end = "running"
    /\ classifications = {} /\ file_records = {}

\* the loop takes the next file and calls process_file
TakeFile(answer) ==
    /\ loop_end = "running" /\ ppc = "loop" /\ taken < Len(file_paths)
    /\ answer \in Answers(interactive)
    /\ taken' = taken + 1
    /\ run' = NewRun(QueueGet(file_paths, taken), answer)
    /\ ppc' = "analyze"
    /\ UNCHANGED <<pmode, interactive, patched, file_paths, results,
                   folder_context, watcher_up, loop_end, procDb, notProc>>

\* step 1: analyze; a failed analysis ends the call, and nothing is written
\* to the database
Analyze ==
    /\ ppc = "analyze"
    /\ LET a == AnalyzeOutcome(run.kind)
           r == [run EXCEPT !.analysis = a]
           o == IF a = "ok" THEN [pc |-> "scan", run |-> r]
                ELSE StageFailed(r, "scan")
       IN  run' = o.run /\ ppc' = o.pc
    /\ UNCHANGED <<pmode, interactive, patched, file_paths, taken, results,
                   folder_context, watcher_up, loop_end, procDb, notProc>>

\* step 2: scan the folders once; _scan_folder_context returns None when
\* there is nothing to scan, and then the next file scans again
ScanContext(found) ==
    /\ ppc = "scan"
    /\ folder_context' = IF folder_context = "none" /\ found
                         THEN "scanned" ELSE folder_context
    /\ ppc' = "classify"
    /\ UNCHANGED <<pmode, interactive, patched, file_paths, taken, run, results,
                   watcher_up, loop_end, procDb, notProc>>

\* step 3: classify; a failed classification ends the call, an exception
\* leaves process_file
Classify(c) ==
    /\ ppc = "classify"
    /\ c \in ClassifyOutcomes(patched)
    /\ LET r == [run EXCEPT !.classification = c]
           o == CASE c = "ok" -> [pc |-> "display", run |-> r]
                  [] c = "failed" -> StageFailed(r, "display")
                  [] OTHER -> [pc |-> "raise",
                               run |-> [r EXCEPT !.outcome = "raised"]]
       IN  run' = o.run /\ ppc' = o.pc
    /\ UNCHANGED <<pmode, interactive, patched, file_paths, taken, results,
                   folder_context, watcher_up, loop_end, procDb, notProc>>

\* step 4: _display_classification reads classification.is_new_folder
Display ==
    /\ ppc = "display"
    /\ run' = [run EXCEPT !.outcome = "raised"]
    /\ ppc' = "raise"
    /\ UNCHANGED <<pmode, interactive, patched, file_paths, taken, results,
                   folder_context, watcher_up, loop_end, procDb, notProc>>

\* process_file returns its ProcessingResult to the loop
FileReturn ==
    /\ ppc = "return"
    /\ results' = Append(results, run.outcome)
    /\ ppc' = "loop"
    /\ UNCHANGED <<pmode, interactive, patched, file_paths, taken, run,
                   folder_context, watcher_up, loop_end, procDb, notProc>>

\* an exception leaves process_file: process_multiple has no handler, and
\* the run command's handler is outside the loop and the watcher's context,
\* so the watcher is stopped and the command exits
FileRaise ==
    /\ ppc = "raise"
    /\ ppc' = "loop"
    /\ loop_end' = IF pmode = "multiple" THEN "raised" ELSE "exited"
    /\ watcher_up' = FALSE
    /\ UNCHANGED <<pmode, interactive, patched, file_paths, taken, run, results,
                   folder_context, procDb, notProc>>

\* process_multiple has gone through the list and returns the results
LoopEnd ==
    /\ pmode = "multiple" /\ loop_end = "running" /\ ppc = "loop"
    /\ taken = Len(file_paths)
    /\ loop_end' = "returned"
    /\ UNCHANGED <<pmode, interactive, patched, file_paths, taken, run, ppc,
                   results, folder_context, watcher_up, procDb, notProc>>

\* run command: the watcher's callback puts a new file on the queue
OnFileReady(kind) ==
    /\ pmode = "run" /\ watcher_up /\ Len(file_paths) < MaxBatch
    /\ file_paths' = Append(file_paths, kind)
    /\ UNCHANGED <<pmode, interactive, patched, taken, run, ppc, results,
                   folder_context, watcher_up, loop_end, procDb, notProc>>

\* run command: the operator presses Ctrl+C while the loop waits
KeyboardInterrupt ==
    /\ pmode = "run" /\ loop_end = "running" /\ ppc = "loop"
    /\ loop_end' = "interrupted"
    /\ watcher_up' = FALSE
    /\ UNCHANGED <<pmode, interactive, patched, file_paths, taken, run, ppc,
                   results, folder_context, procDb, notProc>>

(***************************************************************************)
(* The parsing of the LLM reply.  A reply is modelled by what the regular  *)
(* expression and json.loads make of it: whether a brace span is found,    *)
(* whether it is valid JSON, and the values of the fields of the object.   *)
(* A value carries its JSON type; strings are sequences of characters and  *)
(* numbers are counted in tenths.                                          *)
(***************************************************************************)
Absent == [t |-> "absent"]
Null == [t |-> "null"]
Str(v) == [t |-> "str", v |-> v]
Num(v) == [t |-> "num", v |-> v]
List(v) == [t |-> "list", v |-> v]

DestinationValues ==
    {Absent, Null, Num(5), List(<<>>),
     Str(<<>>), Str(<<"a">>), Str(<<"/", "a", "\\">>)}
ConfidenceValues ==
    {Absent, Null, List(<<>>), Num(-5), Num(8), Num(17),
     Str(<<"0", ".", "8">>), Str(<<"h", "i">>)}
TagsValues ==
    {Absent, Null, Str(<<"x">>), List(<<>>),
     List(<<Str(<<" ", "x">>), Str(<<>>), Num(7)>>)}
Spans == {"none", "invalid", "object"}

Responses ==
    {[span |-> "none"], [span |-> "invalid"]} \cup
    [span : {"object"}, destination_folder : DestinationValues,
     confidence : ConfidenceValues, tags : TagsValues]

\* float(x) for the strings of the model: the tenths of the number a string
\* spells, -1 for a string float() refuses with ValueError
FloatOfString(str) ==
    IF str = <<"0", ".", "8">> THEN 8 ELSE -1

\* str(x)
StrOf(x) ==
    CASE x.t = "str" -> x.v
      [] x.t = "num" -> IF x.v = 7 THEN <<"7">> ELSE <<"5">>
      [] x.t = "null" -> <<"N", "o", "n", "e">>
      [] OTHER -> <<"[", "]">>

\* the truth value Python gives a JSON value
Truthy(x) ==
    CASE x.t \in {"str", "list"} -> x.v # <<>>
      [] x.t = "num" -> x.v # 0
      [] OTHER -> FALSE

Min(a, b) == IF a <= b THEN a ELSE b
Max(a, b) == IF a >= b THEN a ELSE b

RECURSIVE CleanTags(_)
CleanTags(ts) ==
    IF ts = <<>> THEN <<>>
    ELSE IF Truthy(Head(ts))
         THEN <<Strip(StrOf(Head(ts)), {" "})>> \o CleanTags(Tail(ts))
         ELSE CleanTags(Tail(ts))

\* lines 256-259: tags becomes a list of stripped strings
CoerceTags(tags) ==
    CASE tags.t = "absent" -> <<>>
      [] tags.t = "list" -> CleanTags(tags.v)
      [] OTHER -> IF Truthy(tags) THEN <<Strip(StrOf(tags), {" "})>> ELSE <<>>

\* the ClassificationResult of the except branch
ParseFailure ==
    [raised |-> "", success |-> FALSE, destination_folder |-> Unsorted,
     tags |-> <<>>, confidence |-> 0, error_message |-> "parse"]

\* an exception that the except clause does not catch
ParseRaised(exc) ==
    [raised |-> exc, success |-> FALSE, destination_folder |-> <<>>,
     tags |-> <<>>, confidence |-> 0, error_message |-> ""]

NoParse == ParseRaised("none")

\* the except clause: (json.JSONDecodeError, ValueError) are caught and
\* give the failure result, anything else leaves _parse_response
Except(exc) ==
    IF exc \in {"JSONDecodeError", "ValueError"}
    THEN ParseFailure ELSE ParseRaised(exc)

\* FileClassifier._parse_response
ParseResponseOutcome(resp) ==
    IF resp.span = "none" THEN Except("ValueError")
    ELSE IF resp.span = "invalid" THEN Except("JSONDecodeError")
    ELSE
    LET destination == IF resp.destination_folder.t = "absent"
                       THEN Str(Unsorted) ELSE resp.destination_folder
        c == IF resp.confidence.t = "absent" THEN Num(5) ELSE resp.confidence
    IN
    IF c.t \in {"null", "list"} THEN Except("TypeError")
    ELSE IF c.t = "str" /\ FloatOfString(c.v) = -1 THEN Except("ValueError")
    ELSE IF destination.t # "str" THEN Except("AttributeError")
    ELSE
    LET confidence == IF c.t = "str" THEN FloatOfString(c.v) ELSE c.v IN
    [raised |-> "", success |-> TRUE,
     destination_folder |-> SanitizeDestination(destination.v),
     tags |-> CoerceTags(resp.tags),
     confidence |-> Max(0, Min(10, confidence)),
     error_message |-> ""]

InitParse ==
    /\ response \in Responses
    /\ parse_out = NoParse
    /\ parse_pc = "reply"

\* a call of _parse_response on the reply at hand
ParseReply ==
    /\ parse_pc = "reply"
    /\ parse_out' = ParseResponseOutcome(response)
    /\ parse_pc' = "done"
    /\ UNCHANGED <<response, notParse>>

\* the next reply arrives from the LLM
NextReply(resp) ==
    /\ parse_pc = "done" /\ parse_out.raised = ""
    /\ response' = resp
    /\ parse_out' = NoParse
    /\ parse_pc' = "reply"
    /\ UNCHANGED notParse

(***************************************************************************)
(* The index manager.  The collection is the sequence of its rows; a row   *)
(* holds the id, the embedding, the document and the metadata in the form  *)
(* ChromaDB stores.  A text is a stream of characters and the length taken *)
(* of it, so that text[:n] is the same stream cut to n; a datetime is a    *)
(* positive number and None is 0.                                          *)
(***************************************************************************)
SnippetLimit == 2000
SummaryLimit == 1000
DefaultSummary == 500

Text(stream, len) ==
    IF len = 0 THEN [stream |-> "", len |-> 0]
    ELSE [stream |-> stream, len |-> len]
EmptyText == Text("", 0)
\* text[:n]
Prefix(text, n) == Text(text.stream, Min(text.len, n))
\* not text.strip(): the text is empty or white space only
IsBlank(text) == text.stream \in {"", " "}

Texts == {Text(" ", 3), Text("p", 400), Text("p", 2400), Text("q", 1200)}
Summaries == {EmptyText, Text("q", 1200)}

Comma == ","
TagLists == {<<>>, <<<<"w">>>>, <<<<"w">>, <<"x">>>>, <<<<"w", Comma, "x">>>>}

\* ",".join(tags)
RECURSIVE JoinTags(_)
JoinTags(tags) ==
    IF tags = <<>> THEN <<>>
    ELSE IF Len(tags) = 1 THEN tags[1]
    ELSE tags[1] \o <<Comma>> \o JoinTags(Tail(tags))

\* str.split(","), with the piece being read in acc
RECURSIVE SplitFrom(_, _)
SplitFrom(str, acc) ==
    IF str = <<>> THEN <<acc>>
    ELSE IF Head(str) = Comma THEN <<acc>> \o SplitFrom(Tail(str), <<>>)
    ELSE SplitFrom(Tail(str), Append(acc, Head(str)))

SplitTags(str) == IF str = <<>> THEN <<>> ELSE SplitFrom(str, <<>>)

\* datetime.isoformat() if the datetime is set, else ""
IsoFormat(t) == IF t = 0 THEN <<>> ELSE <<t>>
\* datetime.fromisoformat() if the string is set, else None
FromIsoFormat(iso) == IF iso = <<>> THEN 0 ELSE iso[1]

\* IndexManager.compute_content_hash: the truncated SHA-256 of the text
ComputeContentHash(text) == <<"sha256", text>>
NoHash == <<"none", EmptyText>>

\* the IndexedFileMetadata that index_file builds
BuildMetadata(file_id, file_path, text, tags, content_summary, created_at, modified_at, size_bytes, t) ==
    [file_id |-> file_id,
     file_path |-> file_path,
     filename |-> NameOf(file_path),
     extension |-> Suffix(NameOf(file_path)),
     file_type |-> "document",
     tags |-> tags,
     content_summary |-> IF content_summary = EmptyText
                         THEN Prefix(text, DefaultSummary)
                         ELSE content_summary,
     content_hash |-> ComputeContentHash(text),
     created_at |-> created_at,
     modified_at |-> modified_at,
     indexed_at |-> t,
     size_bytes |-> size_bytes,
     source_folder |-> NameOf(Parent(file_path))]

\* IndexedFileMetadata.to_chroma_metadata
ToChromaMetadata(m) ==
    [m EXCEPT !.tags = JoinTags(m.tags),
              !.content_summary = Prefix(m.content_summary, SummaryLimit),
              !.created_at = IsoFormat(m.created_at),
              !.modified_at = IsoFormat(m.modified_at),
              !.indexed_at = IsoFormat(m.indexed_at)]

\* IndexedFileMetadata.from_chroma_metadata
FromChromaMetadata(c) ==
    [c EXCEPT !.tags = SplitTags(c.tags),
              !.created_at = FromIsoFormat(c.created_at),
              !.modified_at = FromIsoFormat(c.modified_at),
              !.indexed_at = FromIsoFormat(c.indexed_at)]

RowsOf(rows, file_id) == {i \in 1..Len(rows) : rows[i].id = file_id}

\* collection.upsert: the row of that id is replaced, a new id gets a row
Upsert_KeepFirst(rows, row) ==
    IF RowsOf(rows, row.id) # {} THEN rows ELSE Append(rows, row)

Upsert(rows, row) ==
    IF RowsOf(rows, row.id) # {}
    THEN [i \in 1..Len(rows) |-> IF rows[i].id = row.id THEN row ELSE rows[i]]
    ELSE Append(rows, row)

\* collection.delete(ids=[file_id])
RECURSIVE Delete(_, _)
Delete(rows, file_id) ==
    IF rows = <<>> THEN <<>>
    ELSE IF Head(rows).id = file_id THEN Delete(Tail(rows), file_id)
    ELSE <<Head(rows)>> \o Delete(Tail(rows), file_id)

\* IndexManager.index_file: the collection it leaves and what it returns;
\* an exception of the store gives False
IndexFile(rows, file_id, file_path, text, embedding, tags, content_summary, created_at, modified_at, size_bytes, t, storeOk) ==
    IF ~storeOk THEN [rows |-> rows, ok |-> FALSE]
    ELSE [rows |-> Upsert(rows,
                     [id |-> file_id,
                      embedding |-> embedding,
                      document |-> Prefix(text, SnippetLimit),
                      metadata |-> ToChromaMetadata(
                          BuildMetadata(file_id, file_path, text, tags,
                                        content_summary, created_at,
                                        modified_at, size_bytes, t))]),
          ok |-> TRUE]

\* IndexManager.remove_file
RemoveFile(rows, file_id, storeOk) ==
    IF ~storeOk THEN [rows |-> rows, ok |-> FALSE]
    ELSE [rows |-> Delete(rows, file_id), ok |-> TRUE]

\* IndexManager.get_indexed_count
GetIndexedCount(rows) == Len(rows)

\* IndexManager.is_indexed; content_hash = NoHash stands for None
IsIndexed_AnyHash(rows, file_id, content_hash, storeOk) ==
    storeOk /\ RowsOf(rows, file_id) # {}

IsIndexed(rows, file_id, content_hash, storeOk) ==
    IF ~storeOk THEN FALSE
    ELSE IF RowsOf(rows, file_id) = {} THEN FALSE
    ELSE IF content_hash = NoHash THEN TRUE
    ELSE LET i == CHOOSE i \in RowsOf(rows, file_id) :
                      \A j \in RowsOf(rows, file_id) : i <= j
         IN  rows[i].metadata.content_hash = content_hash

\* IndexManager.get_file: (metadata, document), or none
NoFile == [found |-> FALSE]
GetFile(rows, file_id) ==
    IF RowsOf(rows, file_id) = {} THEN NoFile
    ELSE LET i == CHOOSE i \in RowsOf(rows, file_id) :
                      \A j \in RowsOf(rows, file_id) : i <= j
         IN  [found |-> TRUE,
              metadata |-> FromChromaMetadata(rows[i].metadata),
              document |-> rows[i].document]

FileIds == {"file_1", "file_2"}
NoCall == [op |-> "none", file_id |-> "", text |-> EmptyText, ok |-> FALSE,
           args |-> <<>>]

InitIndexManager ==
    /\ collection = <<>>
    /\ icalls = 0
    /\ ilast = NoCall

\* a caller indexes a file
IndexFileCall(file_id, file_path, text, embedding, tags, content_summary, st, storeOk) ==
    /\ icalls < MaxCalls
    /\ icalls' = icalls + 1
    /\ LET r == IndexFile(collection, file_id, file_path, text, embedding, tags,
                          content_summary, st.ctime, st.mtime, st.size,
                          icalls + 1, storeOk)
       IN  /\ collection' = r.rows
           /\ ilast' = [op |-> "index_file", file_id |-> file_id,
                        text |-> text, ok |-> r.ok,
                        args |-> <<file_path, embedding, tags, content_summary,
                                   st>>]
    /\ UNCHANGED notIndex

\* a caller removes a file
RemoveFileCall(file_id, storeOk) ==
    /\ icalls < MaxCalls
    /\ icalls' = icalls + 1
    /\ LET r == RemoveFile(collection, file_id, storeOk)
       IN  /\ collection' = r.rows
           /\ ilast' = [op |-> "remove_file", file_id |-> file_id,
                        text |-> EmptyText, ok |-> r.ok, args |-> <<>>]
    /\ UNCHANGED notIndex

(***************************************************************************)
(* The indexing driver: index_command of cli/index.py.  Every run is a     *)
(* process of its own; the collection and the database outlive it.         *)
(***************************************************************************)
MaxRuns == 2
MaxFaults == 1

\* the seeds a process may salt its string hashes with (PYTHONHASHSEED is
\* random unless the environment fixes it)
HashSeeds == {1, 2}
\* hash(s) of a str: fixed within a process, salted with the seed of the
\* process; collisions of different strings are left out
PyHash(str, hashseed) == <<str, hashseed>>
\* f"file_{hash(str(file_path.resolve())) & 0xffffffff:08x}"
FileId(file_path, hashseed) == <<"file_", PyHash(file_path, hashseed)>>

\* collect_files: the candidates, sorted
CandidateFiles == << <<Seg("docs"), a_txt>>, <<Seg("notes"), b_md>> >>
TreeTexts == {EmptyText, Text(" ", 3), Text("p", 400), Text("q", 1200)}
\* the trees of the first run: (texts, links); in the last one the second
\* candidate is a symbolic link to the first
InitTrees == { << <<Text("p", 400), Text(" ", 3)>>, <<1, 2>> >>,
               << <<EmptyText, Text("q", 1200)>>, <<1, 2>> >>,
               << <<Text("p", 400), Text("p", 400)>>, <<1, 1>> >> }
\* file_path.resolve()
Resolve(lk, k) == CandidateFiles[lk[k]]
IndexFaults == {"none", "extract", "embed", "stat", "store", "db"}

ZeroStats == [indexed |-> 0, skipped |-> 0, errors |-> 0, already_indexed |-> 0]
NoOutcomes == [k \in 1..Len(CandidateFiles) |-> "none"]

\* extract_text_for_indexing: (text, error)
ExtractTextForIndexing(text, fault) ==
    IF fault = "extract" THEN [text |-> EmptyText, error |-> TRUE]
    ELSE [text |-> text, error |-> FALSE]

\* file_path.stat(), with the OSError branch
FileStat(text, fault) ==
    IF fault = "stat" THEN [size |-> 0, ctime |-> 0, mtime |-> 0]
    ELSE [size |-> text.len, ctime |-> 1, mtime |-> 2]

\* stats[counter] += 1
Bump_SkippedUncounted(st, counter) ==
    IF counter = "skipped" THEN st ELSE [st EXCEPT ![counter] = @ + 1]

Bump(st, counter) == [st EXCEPT ![counter] = @ + 1]

\* session.query(File).filter(File.path == ...).first(): the session does
\* not flush before a query (autoflush=False), so rows added and not yet
\* committed are not seen
ExistingFile(db, path) == {r \in db : r.path = path}

\* File(path=..., status=PROCESSED, embedding_id=file_id)
NewFile(path, file_id) ==
    [path |-> path, status |-> "processed", embedding_id |-> file_id]

\* session.commit(): the rows added are inserted; files.path is unique, so
\* two rows of one path make the commit raise and nothing is inserted
Commit(db, session, commitOk) ==
    LET unique == \A i, j \in 1..Len(session) :
                      session[i].path = session[j].path => i = j
        fresh == \A i \in 1..Len(session) :
                      ExistingFile(db, session[i].path) = {}
    IN  IF commitOk /\ unique /\ fresh
        THEN [ok |-> TRUE, db |-> db \cup {session[i] : i \in 1..Len(session)}]
        ELSE [ok |-> FALSE, db |-> db]

\* one iteration of the loop over the files: the counter it increments, the
\* collection and the session it leaves
IndexIteration(rows, db, session, file_path, resolved, content, hashseed, isForce, fault, t) ==
    LET file_id == FileId(resolved, hashseed)
        ext == ExtractTextForIndexing(content, fault)
        text == ext.text
        storeOk == fault # "store"
        st == FileStat(content, fault)
        r == IndexFile(rows, file_id, file_path, text, 1, <<>>,
                       Prefix(text, DefaultSummary), st.ctime, st.mtime,
                       st.size, t, storeOk)
        same == [rows |-> rows, session |-> session]
    IN  IF /\ ~isForce /\ text # EmptyText
           /\ IsIndexed(rows, file_id, ComputeContentHash(text), storeOk)
        THEN [counter |-> "already_indexed"] @@ same
        ELSE IF ext.error \/ text = EmptyText
        THEN [counter |-> "errors"] @@ same
        ELSE IF IsBlank(text)
        THEN [counter |-> "skipped"] @@ same
        ELSE IF fault = "embed"
        THEN [counter |-> "errors"] @@ same
        ELSE IF ~r.ok
        THEN [counter |-> "errors", rows |-> r.rows, session |-> session]
        ELSE IF fault = "db"
        THEN [counter |-> "errors", rows |-> r.rows, session |-> session]
        ELSE [counter |-> "indexed", rows |-> r.rows,
              session |-> IF ExistingFile(db, resolved) = {}
                          THEN Append(session, NewFile(resolved, file_id))
                          ELSE session]

InitIndexer ==
    /\ \E tl \in InitTrees : tree = tl[1] /\ links = tl[2]
    /\ ipc = "idle" /\ nruns = 0 /\ seed = 0 /\ force = FALSE
    /\ pos = 0 /\ stats = ZeroStats /\ outcomes = NoOutcomes
    /\ faulted = FALSE /\ nfaults = 0 /\ changed = {}
    /\ session_new = <<>> /\ db_files = {} /\ derived = {}
    /\ reports = <<>>

\* index_command starts in a new process; the seeds being interchangeable,
\* the first process is given the first one
StartRun(hashseed, isForce) ==
    /\ ipc = "idle" /\ nruns < MaxRuns
    /\ nruns = 0 => hashseed = 1
    /\ ipc' = "loop" /\ nruns' = nruns + 1
    /\ seed' = hashseed /\ force' = isForce
    /\ pos' = 0 /\ stats' = ZeroStats /\ outcomes' = NoOutcomes
    /\ faulted' = FALSE /\ session_new' = <<>>
    /\ UNCHANGED <<tree, links, nfaults, changed, db_files, derived, reports,
                   collection, notDriver>>

\* the loop handles the next file
IndexOne(fault) ==
    /\ ipc = "loop" /\ pos < Len(CandidateFiles)
    /\ fault # "none" => nfaults < MaxFaults
    /\ LET file_path == CandidateFiles[pos + 1]
           resolved == Resolve(links, pos + 1)
           it == IndexIteration(collection, db_files, session_new, file_path,
                                resolved, tree[pos + 1], seed, force, fault,
                                nruns)
       IN  /\ stats' = Bump(stats, it.counter)
           /\ outcomes' = [outcomes EXCEPT ![pos + 1] = it.counter]
           /\ collection' = it.rows
           /\ session_new' = it.session
           /\ derived' = derived \cup {<<resolved, FileId(resolved, seed)>>}
    /\ pos' = pos + 1
    /\ faulted' = (faulted \/ fault # "none")
    /\ nfaults' = IF fault = "none" THEN nfaults ELSE nfaults + 1
    /\ UNCHANGED <<tree, links, ipc, nruns, seed, force, changed, db_files, reports,
                   notDriver>>

\* session.commit() and the summary; a commit that raises ends the command
\* with exit status 1 and no summary
EndRun(commitOk) ==
    /\ ipc = "loop" /\ pos = Len(CandidateFiles)
    /\ ~commitOk => nfaults < MaxFaults
    /\ ipc' = "idle"
    /\ db_files' = Commit(db_files, session_new, commitOk).db
    /\ session_new' = <<>>
    /\ reports' = Append(reports,
                         [tree |-> tree, force |-> force, seed |-> seed,
                          stats |-> stats, outcomes |-> outcomes,
                          clean |-> ~faulted /\ Commit(db_files, session_new, commitOk).ok,
                          summary |-> Commit(db_files, session_new, commitOk).ok])
    /\ faulted' = (faulted \/ ~commitOk)
    /\ nfaults' = IF commitOk THEN nfaults ELSE nfaults + 1
    /\ changed' = {}
    /\ UNCHANGED <<tree, links, nruns, seed, force, pos, stats, outcomes, derived,
                   collection, notDriver>>

\* between two runs the text of a file changes
EditFile(k, text) ==
    /\ ipc = "idle" /\ nruns >= 1 /\ nruns < MaxRuns
    /\ changed = {} /\ text # tree[k]
    /\ tree' = [j \in DOMAIN tree |->
                    IF links[j] = links[k] THEN text ELSE tree[j]]
    /\ changed' = {j \in DOMAIN tree : links[j] = links[k]}
    /\ UNCHANGED <<links, ipc, nruns, seed, force, pos, stats, outcomes, faulted,
                   nfaults, session_new, db_files, derived, reports,
                   collection, notDriver>>

(***************************************************************************)
(* OllamaClient.generate (classifier/classifier.py).  One step per request *)
(* of the retry loop; the return of the call is part of the step of the    *)
(* request that decides it.                                                *)
(***************************************************************************)
MaxRetries == 3

\* what a request can meet: an HTTP reply (status, body) or an httpx exception
HttpReply(status, body) == [kind |-> "http", status |-> status, body |-> body]
Replies ==
    {HttpReply(200, "text"), HttpReply(200, "no_key"), HttpReply(200, "garbled"),
     HttpReply(204, "none"), HttpReply(500, "none"),
     [kind |-> "timeout", status |-> 0, body |-> "none"],
     [kind |-> "request_error", status |-> 0, body |-> "none"]}

Running == [kind |-> "running", text |-> "none"]
ReturnedText(text) == [kind |-> "returned", text |-> text]
ReturnedNone == [kind |-> "none", text |-> "none"]
Raised == [kind |-> "raised", text |-> "none"]

\* the body of one iteration of the loop: what the call does with a reply
OnReply_NeverReturns(resp, isLast) == IF isLast THEN ReturnedNone ELSE Running
OnReply(resp, isLast) ==
    IF resp.kind = "http" /\ resp.status = 200
    THEN IF resp.body = "garbled" THEN Raised   \* response.json() raises
         ELSE ReturnedText(IF resp.body = "no_key" THEN "" ELSE resp.body)
    ELSE IF isLast THEN ReturnedNone ELSE Running

InitOllama ==
    /\ max_retries \in 1..MaxRetries
    /\ replies = <<>>
    /\ gen_out = Running

\* one pass of `for attempt in range(self.max_retries)`
Post(resp) ==
    /\ gen_out = Running
    /\ Len(replies) < max_retries
    /\ replies' = Append(replies, resp)
    /\ gen_out' = OnReply(resp, Len(replies) + 1 = max_retries)
    /\ UNCHANGED <<max_retries, notOllama>>

(***************************************************************************)
(* SearchEngine.search (search/engine.py) over IndexManager.search         *)
(* (search/index_manager.py).  The store is given by the entries that      *)
(* match the where clause, nearest first.                                  *)
(***************************************************************************)
FetchCap == 100

StoreSizes == {0, 3, 120}
StoreKinds == {"dated", "undated"}
SearchLimits == {0, 1, 2, 60}
QueryKinds == {"ok", "blank", "short", "no_embedding"}
DateValues == {0, 2}          \* 0: the filter is not given
TagFilters == {<<>>, <<"work">>, <<"WORK", "tax">>}
NoFilters == [after |-> 0, before |-> 0, tag |-> <<>>]
SearchFilters == [after : DateValues, before : DateValues, tag : TagFilters]

\* str.lower on the tags in use
Lower(t) == IF t = "Work" \/ t = "WORK" THEN "work" ELSE t
LowerSet(tags) == {Lower(tags[i]) : i \in DOMAIN tags}

\* the i-th nearest entry of the store: modified_at 0 stands for None
Entry(i, kind) ==
    [file_id |-> i,
     modified_at |-> IF kind = "dated" THEN i % 4 ELSE 0,
     tags |-> IF i % 3 = 0 THEN <<"Work">>
              ELSE IF i % 3 = 1 THEN <<"home">> ELSE <<>>]

\* IndexManager.search: collection.query raises on n_results <= 0, and any
\* exception gives the empty list
StoreSearch(size, kind, n_results) ==
    IF n_results <= 0 THEN <<>>
    ELSE [i \in 1..Min(size, n_results) |-> Entry(i, kind)]

\* SearchEngine._passes_post_filters
PassesPostFilters(metadata, filters) ==
    /\ ~(filters.after # 0 /\ metadata.modified_at # 0
         /\ metadata.modified_at < filters.after)
    /\ ~(filters.before # 0 /\ metadata.modified_at # 0
         /\ metadata.modified_at > filters.before)
    /\ ~(filters.tag # <<>>
         /\ LowerSet(metadata.tags) \cap LowerSet(filters.tag) = {})

FetchLimit_NoCap(limit) == limit * 2
FetchLimit(limit) == Min(limit * 2, FetchCap)

\* the loop over raw_results, with its break: an entry is appended when it
\* passes and the loop gets to it, that is when nothing was appended before
\* it or fewer than `limit` entries were
Collect(raw_results, filters, limit) ==
    LET passed == {i \in DOMAIN raw_results :
                       PassesPostFilters(raw_results[i], filters)}
        before(i) == Cardinality({j \in passed : j < i})
        kept == {i \in passed : before(i) = 0 \/ before(i) < limit}
    IN  [k \in 1..Cardinality(kept) |->
             raw_results[CHOOSE i \in kept : before(i) = k - 1]]

SearchOutcome(size, kind, query, filters, limit) ==
    IF query # "ok" THEN <<>>
    ELSE IF size = 0 THEN <<>>
    ELSE Collect(StoreSearch(size, kind, FetchLimit(limit)), filters, limit)

NoQuery == [query |-> "none", filters |-> NoFilters, limit |-> 0]

InitSearchEngine ==
    /\ store_size \in StoreSizes
    /\ store_kind \in StoreKinds
    /\ squery = NoQuery
    /\ hits = <<>>

Search(query, filters, limit) ==
    /\ squery' = [query |-> query, filters |-> filters, limit |-> limit]
    /\ hits' = SearchOutcome(store_size, store_kind, query, filters, limit)
    /\ UNCHANGED <<store_size, store_kind, notSearch>>

(***************************************************************************)
(* FolderScanner (utils/folder_scanner.py).  A path is the sequence of its *)
(* names; a scanned tree is the set of its nodes, each with the paths of   *)
(* its children.                                                           *)
(***************************************************************************)
MaxDepth == 3

RootDir == <<"r">>
OtherRoot == <<"s">>
HiddenRoot == <<".cfg">>
PlainFile == <<"f0">>
GonePath == <<"gone">>

\* the directory trees the scans run on
ChainDirs == {SubSeq(<<"r", "a", "b", "c", "d">>, 1, n) : n \in 1..5}
BushDirs ==
    {RootDir, <<"r", "a">>, <<"r", "b">>, <<"r", "a", "a">>, <<"r", "b", "c">>,
     <<"r", ".git">>, <<"r", ".git", "a">>, <<"r", "~tmp">>,
     <<"r", "node_modules">>, <<"r", "node_modules", "a">>}
FsTrees ==
    {ChainDirs \cup {OtherRoot}, BushDirs \cup {OtherRoot},
     {RootDir, OtherRoot, HiddenRoot, <<".cfg", "a">>}}
DeniedSets == SUBSET {RootDir, <<"r", "a">>}
RootLists ==
    {<<>>, <<RootDir>>, <<RootDir, OtherRoot>>, <<<<"r", "a">>, RootDir>>,
     <<GonePath, PlainFile, HiddenRoot, RootDir>>}

\* the names of EXCLUDED_FOLDERS that occur in the trees
EXCLUDED_FOLDERS == {".git", "node_modules"}
FirstChar(name) ==
    IF name \in {".git", ".cfg"} THEN "." ELSE IF name = "~tmp" THEN "~" ELSE "x"

\* FolderScanner._should_exclude
ShouldExclude(folder) ==
    LET name == folder[Len(folder)]
    IN  name \in EXCLUDED_FOLDERS \/ FirstChar(name) = "." \/ FirstChar(name) = "~"

FolderNode(path, depth, children) ==
    [path |-> path, depth |-> depth, children |-> children]

\* FolderScanner._scan_folder: the nodes of the tree it returns, none when
\* the folder is excluded
RECURSIVE ScanFolder_PastMaxDepth(_, _, _, _, _)
ScanFolder_PastMaxDepth(ds, denied, folder, current_depth, max_depth) ==
    IF ShouldExclude(folder) THEN {}
    ELSE LET listed == IF current_depth > max_depth \/ folder \in denied
                       THEN {}
                       ELSE {c \in ds : Len(c) > 1 /\ Parent(c) = folder}
             sub(c) == ScanFolder_PastMaxDepth(ds, denied, c, current_depth + 1, max_depth)
         IN  {FolderNode(folder, current_depth, {c \in listed : sub(c) # {}})}
                 \cup UNION {sub(c) : c \in listed}

RECURSIVE ScanFolder(_, _, _, _, _)
ScanFolder(ds, denied, folder, current_depth, max_depth) ==
    IF ShouldExclude(folder) THEN {}
    ELSE LET listed == IF current_depth >= max_depth \/ folder \in denied
                       THEN {}
                       ELSE {c \in ds : Len(c) > 1 /\ Parent(c) = folder}
             sub(c) == ScanFolder(ds, denied, c, current_depth + 1, max_depth)
         IN  {FolderNode(folder, current_depth, {c \in listed : sub(c) # {}})}
                 \cup UNION {sub(c) : c \in listed}

\* FolderScanner._count_folders and _find_max_depth
RECURSIVE CountFolders(_)
CountFolders(roots) ==
    IF roots = <<>> THEN 0 ELSE Cardinality(Head(roots)) + CountFolders(Tail(roots))
FindMaxDepth(roots) ==
    LET depths == {n.depth : n \in UNION {roots[i] : i \in DOMAIN roots}}
    IN  IF depths = {} THEN 0 ELSE CHOOSE d \in depths : \A e \in depths : e <= d

\* FolderScanner.scan: one tree per path that is a directory and not excluded
RECURSIVE ScanRoots(_, _, _, _)
ScanRoots(ds, denied, paths, max_depth) ==
    IF paths = <<>> THEN <<>>
    ELSE LET path == Head(paths)
             rest == ScanRoots(ds, denied, Tail(paths), max_depth)
             root_node == IF path \in ds
                          THEN ScanFolder(ds, denied, path, 0, max_depth) ELSE {}
         IN  IF root_node # {} THEN <<root_node>> \o rest ELSE rest

ScanResult(roots) ==
    [roots |-> roots, total_folders |-> CountFolders(roots),
     max_depth_reached |-> FindMaxDepth(roots)]
EmptyScanResult == ScanResult(<<>>)
NoScan == [paths |-> <<>>, max_depth |-> -1]

InitScanner ==
    /\ fs_dirs \in FsTrees
    /\ fs_denied \in DeniedSets
    /\ scan_args = NoScan
    /\ scan_result = EmptyScanResult

Scan(paths, max_depth) ==
    /\ scan_args' = [paths |-> paths, max_depth |-> max_depth]
    /\ scan_result' = ScanResult(ScanRoots(fs_dirs, fs_denied, paths, max_depth))
    /\ UNCHANGED <<fs_dirs, fs_denied, notScan>>

MoverIdle ==
    /\ files = InitFiles /\ dirs = InitDirs /\ actions = <<>>
    /\ hasDb = TRUE /\ now = 0 /\ last = NoResult
SanitizeIdle == reply = <<>> /\ dest = <<>> /\ stage = "off"
WatcherIdle ==
    /\ pending = [p \in Tracked |-> NoEntry]
    /\ fsize = [p \in Tracked |-> 1]
    /\ timers = <<>> /\ lock = 0 /\ evt = EvtIdle /\ mainpc = "off"
    /\ calls = <<>> /\ created = [p \in Tracked |-> 0]
    /\ nEvents = 0 /\ nWrites = 0

ProcessorIdle ==
    /\ pmode = "off" /\ interactive = FALSE /\ patched = FALSE
    /\ file_paths = <<>> /\ taken = 0 /\ run = NoRun /\ ppc = "off"
    /\ results = <<>> /\ folder_context = "none" /\ watcher_up = FALSE
    /\ loop_end = "off" /\ classifications = {} /\ file_records = {}
ParseIdle ==
    response = [span |-> "none"] /\ parse_out = NoParse /\ parse_pc = "off"
IndexIdle == collection = <<>> /\ icalls = 0 /\ ilast = NoCall
CoreIdle == MoverIdle /\ SanitizeIdle /\ WatcherIdle
DriverIdle ==
    /\ tree = <<>> /\ links = <<>> /\ ipc = "off" /\ nruns = 0 /\ seed = 0 /\ force = FALSE
    /\ pos = 0 /\ stats = ZeroStats /\ outcomes = NoOutcomes
    /\ faulted = FALSE /\ nfaults = 0 /\ changed = {}
    /\ session_new = <<>> /\ db_files = {} /\ derived = {} /\ reports = <<>>
OllamaIdle == max_retries = 1 /\ replies = <<>> /\ gen_out = Running
SearchIdle ==
    /\ store_size = 0 /\ store_kind = "undated" /\ squery = NoQuery /\ hits = <<>>
ScanIdle ==
    /\ fs_dirs = {} /\ fs_denied = {} /\ scan_args = NoScan
    /\ scan_result = EmptyScanResult
LateIdle == OllamaIdle /\ SearchIdle /\ ScanIdle
ExtIdleButLate == ProcessorIdle /\ ParseIdle /\ IndexIdle /\ DriverIdle
ExtIdle == ProcessorIdle /\ ParseIdle /\ IndexIdle /\ DriverIdle /\ LateIdle

\* the mover
Init == InitMover /\ SanitizeIdle /\ WatcherIdle /\ ExtIdle
Next ==
    \/ \E source \in DOMAIN files, folder \in FolderArgs, fault \in MoveFaults :
            Move(source, folder, TRUE, fault)
    \/ \E source \in DOMAIN files, folder \in FolderArgs :
            Move(source, folder, FALSE, "none")
    \/ \E source \in BadSourceArgs :
            Move(source, <<Seg("Docs")>>, TRUE, "none")
    \/ \E action_id \in 1..(Len(actions) + 1), fault \in UndoFaults :
            UndoMove(action_id, fault)
Spec == Init /\ [][Next]_vars

\* the sanitization of destinations
\* the mover on a crowded destination folder
InitCrowded == InitCrowdedMover /\ SanitizeIdle /\ WatcherIdle /\ ExtIdle
NextCrowded ==
    \/ \E source \in CrowdedSources, fault \in {"none", "move"} :
            Move(source, <<Seg("Docs")>>, TRUE, fault)
    \/ \E action_id \in 1..Len(actions) : UndoMove(action_id, "none")
SpecCrowded == InitCrowded /\ [][NextCrowded]_vars

InitSan == InitSanitize /\ MoverIdle /\ WatcherIdle /\ ExtIdle
NextSan ==
    \/ ParseResponse
    \/ \E new_dest \in Strings : GetUserDecisionEdit(new_dest)
SpecSanitize == InitSan /\ [][NextSan]_vars

\* the watcher
InitWatch == InitWatcher /\ MoverIdle /\ SanitizeIdle /\ ExtIdle
NextWatch ==
    \/ \E path \in EventPaths, is_directory \in BOOLEAN : OnCreated(path, is_directory)
    \/ CreatedSchedule
    \/ \E path \in EventPaths, is_directory \in BOOLEAN : OnModified(path, is_directory)
    \/ ModifiedCheck
    \/ \E t \in 1..Len(timers) : TimerExpire(t)
    \/ \E t \in 1..Len(timers) : TimerCheck(t)
    \/ \E t \in 1..Len(timers) : TimerCallback(t)
    \/ StopCall
    \/ HandlerStop
    \/ ObserverStop
    \/ \E path \in Tracked, size \in FileSizes : Write(path, size)
SpecWatcher == InitWatch /\ [][NextWatch]_vars

\* the processor
InitProc == InitProcessor /\ CoreIdle /\ ParseIdle /\ IndexIdle /\ DriverIdle /\ LateIdle
NextProc ==
    \/ \E answer \in {"none", "accept", "edit", "skip"} : TakeFile(answer)
    \/ Analyze
    \/ \E found \in BOOLEAN : ScanContext(found)
    \/ \E c \in {"ok", "failed", "raised"} : Classify(c)
    \/ Display
    \/ FileReturn
    \/ FileRaise
    \/ LoopEnd
    \/ \E kind \in FileKinds : OnFileReady(kind)
    \/ KeyboardInterrupt
SpecProcessor == InitProc /\ [][NextProc]_vars

\* the parsing of replies
InitReply == InitParse /\ CoreIdle /\ ProcessorIdle /\ IndexIdle /\ DriverIdle /\ LateIdle
NextParse ==
    \/ ParseReply
    \/ \E resp \in Responses : NextReply(resp)
SpecParse == InitReply /\ [][NextParse]_vars

\* the index manager
InitIndex ==
    InitIndexManager /\ CoreIdle /\ ProcessorIdle /\ ParseIdle /\ DriverIdle
    /\ LateIdle
NextIndex ==
    \/ \E file_id \in FileIds, text \in Texts :
            IndexFileCall(file_id, <<Seg("docs"), a_txt>>, text, 1, <<>>,
                          EmptyText, [size |-> 3, ctime |-> 1, mtime |-> 2],
                          TRUE)
    \/ \E file_id \in FileIds, tags \in TagLists, content_summary \in Summaries :
            IndexFileCall(file_id, <<Seg("notes"), b_md>>, Text("p", 2400), 2,
                          tags, content_summary,
                          [size |-> 0, ctime |-> 0, mtime |-> 0], TRUE)
    \/ \E file_id \in FileIds, text \in Texts :
            IndexFileCall(file_id, <<Seg("docs"), a_txt>>, text, 1, <<>>,
                          EmptyText, [size |-> 3, ctime |-> 1, mtime |-> 2],
                          FALSE)
    \/ \E file_id \in FileIds, storeOk \in BOOLEAN :
            RemoveFileCall(file_id, storeOk)
SpecIndex == InitIndex /\ [][NextIndex]_vars

\* the indexing driver
InitDriver == InitIndexer /\ CoreIdle /\ ProcessorIdle /\ ParseIdle /\ IndexIdle /\ LateIdle
NextDriver ==
    \/ \E hashseed \in HashSeeds, isForce \in BOOLEAN : StartRun(hashseed, isForce)
    \/ \E fault \in IndexFaults : IndexOne(fault)
    \/ \E commitOk \in BOOLEAN : EndRun(commitOk)
    \/ \E k \in 1..Len(CandidateFiles), text \in TreeTexts : EditFile(k, text)
SpecIndexer == InitDriver /\ [][NextDriver]_vars

\* the generate call of the Ollama client
InitClient == InitOllama /\ CoreIdle /\ ExtIdleButLate /\ SearchIdle /\ ScanIdle
NextOllama == \E resp \in Replies : Post(resp)
SpecOllama == InitClient /\ [][NextOllama]_vars

\* the folder scanner
InitScan == InitScanner /\ CoreIdle /\ ExtIdleButLate /\ OllamaIdle /\ SearchIdle
NextScan == \E paths \in RootLists, max_depth \in 0..MaxDepth : Scan(paths, max_depth)
SpecScan == InitScan /\ [][NextScan]_vars

\* the search engine
InitSearch == InitSearchEngine /\ CoreIdle /\ ExtIdleButLate /\ OllamaIdle /\ ScanIdle
NextSearch ==
    \/ \E filters \in SearchFilters, limit \in SearchLimits : Search("ok", filters, limit)
    \/ \E query \in QueryKinds \ {"ok"} : Search(query, NoFilters, 2)
SpecSearch == InitSearch /\ [][NextSearch]_vars

(***************************************************************************)
(* Properties of the mover.                                                *)
(***************************************************************************)
MoveReturned == now' # now /\ last'.op = "move"
UndoReturned == now' # now /\ last'.op = "undo"

\* C1: after every move that returns success, nothing exists at the resolved
\* source path, a regular file exists at result.destination_path, and its
\* content is the content the source had before the call.
C1_SuccessfulMoveRelocates ==
    [][(MoveReturned /\ last'.success) =>
         /\ ~ExistsIn(files', dirs', last'.source_path)
         /\ IsFileIn(files', last'.destination_path)
         /\ files'[Canon(last'.destination_path)] = files[Canon(last'.arg_source)]
      ]_vars

C1_Witness ==
    /\ last.op = "move" /\ last.success
    /\ IsFileIn(files, last.destination_path)
    /\ ~ExistsIn(files, dirs, last.source_path)

\* C2 as stated: a file that exists at organized_root/destination_folder/
\* <source name> before a move still exists there with the same content after
\* the call, and the moved file is placed at a different path.
C2_NeverOverwrites ==
    [][MoveReturned =>
         LET t == Canon(RequestedTarget(last'.arg_source, last'.arg_folder))
         IN  t \in DOMAIN files =>
               /\ t \in DOMAIN files'
               /\ files'[t] = files[t]
               /\ last'.success => Canon(last'.destination_path) # t
      ]_vars

\* C2 amended: the same, for every file at the requested target other than
\* the source itself (a source that already sits at the requested target is
\* moved away from it to a suffixed name).
C2_NeverOverwritesOther ==
    [][MoveReturned =>
         LET t == Canon(RequestedTarget(last'.arg_source, last'.arg_folder))
         IN  (t \in DOMAIN files /\ t # Canon(last'.arg_source)) =>
               /\ t \in DOMAIN files'
               /\ files'[t] = files[t]
               /\ last'.success => Canon(last'.destination_path) # t
      ]_vars

C2_Witness ==
    /\ last.op = "move" /\ last.success
    /\ LET t == Canon(RequestedTarget(last.arg_source, last.arg_folder))
       IN  /\ t \in DOMAIN files
           /\ Canon(last.destination_path) # t
           /\ IsFileIn(files, last.destination_path)

RemoveAt(seq, k) == SubSeq(seq, 1, k - 1) \o SubSeq(seq, k + 1, Len(seq))

\* the name is the target name with one " (n)" put in front of the
\* extension(s): in front of all suffixes, or in front of the last one
IsCounterInsertion(name, target) ==
    \E k \in 1..Len(name) :
        /\ name[k].s = " (n)" /\ name[k].n >= 1
        /\ RemoveAt(name, k) = target
        /\ SubSeq(name, k + 1, Len(name)) \in
             {JoinedSuffixes(target), Suffix(target)}

\* C3: the path a successful move ends at did not exist when the move was
\* made, and it is the requested target or differs from it only by a " (n)"
\* inserted before the extension(s), also for names with several suffixes.
C3_SuffixBeforeExtensions ==
    [][(MoveReturned /\ last'.success) =>
         LET target == RequestedTarget(last'.arg_source, last'.arg_folder)
             dp == last'.destination_path
         IN  /\ ~ExistsIn(files, dirs', dp)
             /\ Parent(dp) = Parent(target)
             /\ \/ NameOf(dp) = NameOf(target)
                \/ IsCounterInsertion(NameOf(dp), NameOf(target))
      ]_vars

\* C4: undo_move of a move action that is not undone and whose file is at
\* after_state.path puts that file at before_state.path, or in the same
\* directory under the original stem with a collision suffix when that path
\* is occupied, leaves nothing at after_state.path and marks the action undone
\* with a timestamp; undo_move of an action already undone fails as already
\* undone and changes nothing.
C4_UndoRoundTrip ==
    [][UndoReturned =>
         LET id == last'.arg_id IN
         /\ (hasDb /\ id \in 1..Len(actions) /\ actions[id].undone) =>
               /\ ~last'.success
               /\ last'.error = "already_undone"
               /\ UNCHANGED <<files, dirs, actions>>
         /\ ( /\ hasDb /\ id \in 1..Len(actions)
              /\ ~actions[id].undone
              /\ actions[id].action_type = "move"
              /\ IsFileIn(files, actions[id].after_state.path)
              /\ last'.error # "undo_failed" ) =>
               LET before == actions[id].before_state.path
                   after == actions[id].after_state.path
                   dp == last'.destination_path
               IN  /\ last'.success
                   /\ ~ExistsIn(files, dirs, dp)
                   /\ IF ~ExistsIn(files, dirs, before)
                      THEN dp = before
                      ELSE /\ Parent(dp) = Parent(before)
                           /\ LET st == Stem(NameOf(before))
                              IN  /\ Len(NameOf(dp)) > Len(st)
                                  /\ SubSeq(NameOf(dp), 1, Len(st)) = st
                                  /\ NameOf(dp)[Len(st) + 1].s = " (n)"
                   /\ IsFileIn(files', dp)
                   /\ files'[Canon(dp)] = files[Canon(after)]
                   /\ ~ExistsIn(files', dirs', after)
                   /\ actions'[id].undone
                   /\ actions'[id].undone_at > 0
                   /\ Len(actions') = Len(actions)
      ]_vars

\* a second undo has just been refused, the file is back at before_state.path
C4_Witness ==
    /\ last.op = "undo" /\ last.error = "already_undone"
    /\ LET a == actions[last.arg_id]
       IN  /\ a.undone /\ a.undone_at > 0
           /\ IsFileIn(files, a.before_state.path)
           /\ ~ExistsIn(files, dirs, a.after_state.path)

\* C5: undo_move returns a failure and leaves the file system and every
\* action row unchanged when no action has the id, when the action is already
\* undone, when its type is not move, or when nothing exists at
\* after_state.path.
C5_UndoRejects ==
    [][UndoReturned =>
         LET id == last'.arg_id IN
         ( \/ id \notin 1..Len(actions)
           \/ actions[id].undone
           \/ actions[id].action_type # "move"
           \/ ~ExistsIn(files, dirs, actions[id].after_state.path) ) =>
             /\ ~last'.success
             /\ UNCHANGED <<files, dirs, actions>>
      ]_vars

\* the refusal at the last check: the file is gone from after_state.path
C5_Witness ==
    /\ last.op = "undo" /\ ~last.success /\ last.error = "current_missing"
    /\ last.arg_id \in 1..Len(actions)
    /\ ~ExistsIn(files, dirs, actions[last.arg_id].after_state.path)

\* C35: after every move that returns success the destination path lies
\* inside organized_base_path, whatever destination_folder was passed.
C35_DestinationInsideBase ==
    [][(MoveReturned /\ last'.success) =>
         /\ IsPrefix(organized_base_path, Canon(last'.destination_path))
         /\ Canon(last'.destination_path) # organized_base_path
      ]_vars

\* C36: for a move action that is not undone, undone becomes true exactly
\* when undo_move moves the file back: when undo_move returns failure the
\* file is still at after_state.path and the action is still not undone.
C36_UndoneIffMovedBack ==
    [][UndoReturned =>
         LET id == last'.arg_id IN
         ( /\ hasDb /\ id \in 1..Len(actions)
           /\ actions[id].action_type = "move" /\ ~actions[id].undone
           /\ IsFileIn(files, actions[id].after_state.path) ) =>
             /\ ~last'.success =>
                    /\ IsFileIn(files', actions[id].after_state.path)
                    /\ files' = files
                    /\ ~actions'[id].undone
             /\ actions'[id].undone <=> files' # files
      ]_vars

\* C38: when the requested target exists, collision resolution takes the
\* candidates "stem (n)suffix" for n = 1, 2, ... in increasing order and
\* the move ends at the first one that does not exist; when the candidates
\* 1 through 1000 all exist the move returns failure and the source file is
\* left in place.
C38_FirstFreeCandidate ==
    [][(MoveReturned /\ last'.error \notin {"source_not_found", "not_a_file"}) =>
         LET target == RequestedTarget(last'.arg_source, last'.arg_folder)
             candidate(n) == Append(Parent(target),
                                    Stem(NameOf(target)) \o <<Cnt(n)>>
                                        \o JoinedSuffixes(NameOf(target)))
             exists(path) == ExistsIn(files, dirs', path)
         IN  IF ~exists(target) THEN last'.success => last'.destination_path = target
             ELSE IF \E n \in 1..1000 : ~exists(candidate(n))
             THEN /\ last'.error # "too_many_conflicts"
                  /\ last'.success =>
                         \E n \in 1..1000 :
                             /\ last'.destination_path = candidate(n)
                             /\ ~exists(candidate(n))
                             /\ \A k \in 1..(n - 1) : exists(candidate(k))
             ELSE /\ ~last'.success
                  /\ last'.error = "too_many_conflicts"
                  /\ files' = files
                  /\ IsFileIn(files', last'.arg_source)
      ]_vars

\* the candidates 1 through 1000 all exist, the move has failed and its
\* source is where it was
C38_Witness ==
    /\ last.op = "move" /\ ~last.success /\ last.error = "too_many_conflicts"
    /\ IsFileIn(files, last.arg_source)
    /\ IsFileIn(files, Append(DocsDir, <<Tok("a"), Cnt(1000), Dot, Tok("txt")>>))

\* C39: when persisting the action record fails after the file has been
\* moved, move still returns: the result reports the move that happened
\* with action_id none, and the rolled-back session leaves no row of the
\* call in the log; an action_id is returned only for the row that was
\* stored.
C39_MoveSurvivesRecordFailure ==
    [][(MoveReturned /\ files' # files) =>
         /\ last'.success
         /\ IsFileIn(files', last'.destination_path)
         /\ ~ExistsIn(files', dirs', last'.source_path)
         /\ IF last'.action_id = 0
            THEN \A i \in 1..Len(actions') :
                     i > Len(actions) => actions'[i].action_type = "create_folder"
            ELSE /\ last'.action_id = Len(actions')
                 /\ Len(actions') > Len(actions)
                 /\ actions'[Len(actions')].action_type = "move"
                 /\ actions'[Len(actions')].after_state.path = last'.destination_path
         /\ (hasDb /\ last'.action_id = 0) => actions' = actions
      ]_vars

\* a move with a database session has moved the file and stored no row
C39_Witness ==
    /\ hasDb /\ now = 1 /\ actions = <<>>
    /\ last.op = "move" /\ last.success /\ last.action_id = 0
    /\ IsFileIn(files, last.destination_path)

\* the records a call has added to the action log
AddedRecords == {i \in 1..Len(actions') : i > Len(actions)}

\* C12: the action log is written only on move success: when move returns
\* success=false, the action log holds no record added by that call.
C12_NoRecordOnFailure ==
    [][(MoveReturned /\ ~last'.success) => actions' = actions]_vars

\* C12, for move records: when move returns success=false the call has added
\* no record of type move and has changed no record; the only record it can
\* have added is the create_folder record of a destination folder it made.
C12_NoMoveRecordOnFailure ==
    [][(MoveReturned /\ ~last'.success) =>
         /\ SubSeq(actions', 1, Len(actions)) = actions
         /\ Len(actions') <= Len(actions) + 1
         /\ \A i \in AddedRecords :
               /\ actions'[i].action_type = "create_folder"
               /\ Canon(actions'[i].after_state.path) \in dirs' \ dirs
      ]_vars

\* a move that made its destination folder, recorded that, and then failed
C12_Witness ==
    /\ last.op = "move" /\ ~last.success /\ last.error = "move_failed"
    /\ actions # <<>>
    /\ actions[Len(actions)].action_type = "create_folder"
    /\ actions[Len(actions)].timestamp = now

\* C13: over any sequence of move and undo_move calls no action record is
\* deleted, undo_move adds no record, and undo_move changes nothing in the
\* log but the undone flag and undone_at of the one action it undoes.
C13_AppendOnly ==
    [][/\ Len(actions') >= Len(actions)
       /\ MoveReturned => SubSeq(actions', 1, Len(actions)) = actions
       /\ UndoReturned =>
             /\ Len(actions') = Len(actions)
             /\ \A i \in 1..Len(actions) :
                   IF i = last'.arg_id /\ last'.success
                   THEN actions'[i] = [actions[i] EXCEPT
                                         !.undone = actions'[i].undone,
                                         !.undone_at = actions'[i].undone_at]
                   ELSE actions'[i] = actions[i]
      ]_vars

\* an undo has marked one of two records and left the other as it was
C13_Witness ==
    /\ last.op = "undo" /\ last.success
    /\ Len(actions) >= 2
    /\ actions[last.arg_id].undone
    /\ \E i \in 1..Len(actions) : ~actions[i].undone

(***************************************************************************)
(* Properties of the destination sanitization.                             *)
(***************************************************************************)
\* the string has ".." as one of its "/"-separated segments
HasDotDotSegment(str) ==
    \E i \in 1..Len(str) :
        /\ i + 1 <= Len(str)
        /\ str[i] = "." /\ str[i + 1] = "."
        /\ (i = 1 \/ str[i - 1] = "/")
        /\ (i + 1 = Len(str) \/ str[i + 2] = "/")

\* C6: no destination_folder that comes out of the classifier's sanitization
\* or is accepted from the operator's edit has ".." as a path segment.
C6_NoDotDotSegment ==
    stage \in {"classified", "edited"} => ~HasDotDotSegment(dest)

\* C30: the destination_folder a successful parse of a reply produces is
\* non-empty, contains no backslash and neither starts nor ends with "/";
\* a destination that is empty after stripping becomes "Unsorted".
C30_ParsedDestinationClean ==
    [][(stage = "reply" /\ stage' = "classified") =>
          /\ dest' # <<>>
          /\ \A i \in DOMAIN dest' : dest'[i] # "\\"
          /\ Head(dest') # "/" /\ dest'[Len(dest')] # "/"
          /\ Strip(reply, {"/", "\\"}) = <<>> <=> dest' = Unsorted]_vars
C30_Witness ==
    stage = "classified" /\ dest = <<"a", "/", ".">>

\* C31: destination sanitization is idempotent: sanitizing a destination
\* that came out of the classifier's sanitization, or out of the operator's
\* edit, gives the same string again.
C31_SanitizeIdempotent ==
    stage \in {"classified", "edited"} =>
        /\ SanitizeDestination(dest) = dest
        /\ StripAndReplace(dest) = dest
C31_Witness ==
    stage = "edited" /\ dest = <<"a", "/", "a">>

(***************************************************************************)
(* Properties of the debounced handler.                                    *)
(***************************************************************************)
CallsFor(p) == {i \in 1..Len(calls) : calls[i].path = p}

\* C7: the callback is invoked at most once per stable-size window: after it
\* has been invoked for a path, it is invoked again for that path only when a
\* created event for it has been scheduled since that invocation.  Each call
\* records how many created events had been scheduled when it was made.
C7_NotAgainWithoutCreated ==
    \A i, j \in 1..Len(calls) :
        (i < j /\ calls[i].path = calls[j].path)
            => calls[j].created > calls[i].created

\* C7, as a count: each entry of the pending map (one stable-size window)
\* leads to at most one invocation of the callback, and the callback is
\* invoked for no path more often than created events were scheduled for it.
C7_OncePerWindow ==
    /\ \A i, j \in 1..Len(calls) : calls[i].entry = calls[j].entry => i = j
    /\ \A p \in Tracked : Cardinality(CallsFor(p)) <= created[p]

\* the callback ran once for a path, then a modified event and a size change
\* came, every timer has ended, and it did not run again
C7_Witness ==
    \E p \in Tracked :
        /\ Cardinality(CallsFor(p)) = 1 /\ created[p] = 1
        /\ nEvents = 2 /\ nWrites >= 1 /\ evt = EvtIdle
        /\ fsize[p] = 2
        /\ \A t \in 1..Len(timers) : timers[t].st \in {"done", "cancelled"}

ModifiedChecked ==
    evt.op = "modified" /\ evt.pc = "lock" /\ evt' # evt

\* C8: when on_modified finds its path tracked it returns with the earlier
\* timer cancelled and a new timer stored with the current size; for an
\* untracked path it schedules nothing.
C8_ModifiedReschedules ==
    [][ModifiedChecked =>
         LET p == evt.path IN
         IF pending[p] # NoEntry
         THEN /\ evt' = EvtIdle
              /\ lock' = 0
              /\ pending'[p] # NoEntry
              /\ pending'[p].timer # pending[p].timer
              /\ pending'[p].size = fsize[p]
              /\ timers'[pending[p].timer].st # "waiting"
         ELSE /\ evt' = EvtIdle
              /\ UNCHANGED <<pending, timers>>
      ]_vars

\* C9: when a timer fires for a tracked path whose size is readable and
\* differs from the stored size, the path is tracked again with the new size
\* and a new timer, and the timer's thread leaves the lock.
C9_SizeChangeReschedules ==
    [][\A t \in 1..Len(timers) :
         LET p == timers[t].path IN
         ( /\ timers[t].st = "fired" /\ timers'[t].st # "fired"
           /\ pending[p] # NoEntry
           /\ fsize[p] # -1 /\ fsize[p] # pending[p].size ) =>
             /\ pending'[p] # NoEntry
             /\ pending'[p].size = fsize[p]
             /\ pending'[p].timer \notin 1..Len(timers)
             /\ lock' = 0
      ]_vars

\* C10: once stop() of the handler and of the FileWatcher have returned, the
\* downstream callback is not invoked again.
C10_NoCallbackAfterStop ==
    [][mainpc = "stopped" => calls' = calls]_vars

\* C33: no handler operation blocks forever: neither the observer thread in
\* on_created or on_modified nor a timer thread in check_and_process ever
\* asks for the lock of the pending map while it holds that lock itself.
C33_NeverBlocksOnOwnLock ==
    /\ evt.pc # "blocked"
    /\ \A t \in 1..Len(timers) : timers[t].st # "blocked"

\* C34: only the timer stored in the pending map for a path delivers that
\* path: the timer whose thread invokes the callback is the timer of the
\* entry it removed, never one that a later event cancelled or replaced.
C34_OnlyStoredTimerDelivers ==
    \A i \in 1..Len(calls) : calls[i].timer = calls[i].entry

\* C37: every change of the pending map (insert, replace, delete, clear) is
\* made by a thread that took the free lock for it, and the thread that
\* invokes the downstream callback does not hold the lock.
C37_MapChangesUnderLock ==
    [][/\ pending' # pending => lock = 0
       /\ calls' # calls =>
              \E t \in 1..Len(timers) :
                  /\ timers[t].st = "callback" /\ timers'[t].st = "done"
                  /\ lock # t
                  /\ calls' = Append(calls, calls'[Len(calls')])
                  /\ calls'[Len(calls')].timer = t
                  /\ pending' = pending
      ]_vars

\* an entry was inserted, replaced and deleted, and the callback was invoked
\* by the thread of the second timer with the lock free
C37_Witness ==
    /\ Len(calls) = 1 /\ lock = 0
    /\ calls[1].timer = 2 /\ calls[1].entry = 2
    /\ timers[1].st = "cancelled" /\ timers[2].st = "done"
    /\ pending[calls[1].path] = NoEntry

\* C40: with debounce_seconds = 0 the thread of the timer still runs
\* check_and_process after the event; the claim has every timer that finds
\* its path tracked go on to the callback, whatever the size of the file is
\* by then, with no comparison of sizes.
C40_NoStabilityCheck ==
    [][\A t \in 1..Len(timers) :
         ( /\ timers[t].st = "fired" /\ timers'[t].st # "fired"
           /\ pending[timers[t].path] # NoEntry ) =>
             timers'[t].st = "callback"
      ]_vars

(***************************************************************************)
(* Properties of the processor.                                            *)
(***************************************************************************)
\* C11: process_file invokes the mover only after the analysis succeeded, the
\* classification succeeded and the decision is accept or edit (accept when
\* not interactive); when the analysis or the classification fails the run
\* ends errored, and neither the decision prompt nor the mover is invoked.
C11_MoverOnlyAfterDecision ==
    /\ run.move_result # "none" =>
          /\ run.analysis = "ok" /\ run.classification = "ok"
          /\ run.user_decision \in {"accept", "edit"}
          /\ ~interactive => run.user_decision = "accept"
    /\ (run.analysis = "failed" \/ run.classification \in {"failed", "raised"}) =>
          /\ run.outcome = "errored"
          /\ ~run.prompted
          /\ run.move_result = "none"

\* C14: a failure on one file, a failed result or an exception of a pipeline
\* stage, keeps no other file of the batch from being processed and does not
\* shut the watcher down: process_multiple ends with a result for every file
\* it was given, and only the operator stops the watcher of the run command.
C14_FailureIsolated ==
    /\ (pmode = "multiple" /\ loop_end # "running") =>
          Len(results) = Len(file_paths)
    /\ (pmode = "run" /\ ~watcher_up) => loop_end = "interrupted"


\* the call for the file taken last has ended, after an analysis and a
\* classification that succeeded, with this decision to act on
EndedWith(decisions) ==
    /\ run.outcome # "running"
    /\ run.analysis = "ok" /\ run.classification = "ok"
    /\ DecisionOf(run) \in decisions
RowsFor(file) == {c \in classifications : c.file = file}

\* C23: for an accept or edit decision process_file returns a result: moved,
\* with the classification row (accepted for accept, modified for edit)
\* recorded and the file status processed, or errored when the move failed,
\* with no classification row and no success.
C23_RecordOnlyAfterMove ==
    EndedWith({"accept", "edit"}) =>
        /\ run.outcome \in {"moved", "errored"}
        /\ run.outcome = "moved" =>
              /\ run.move_result = "ok"
              /\ \E c \in RowsFor(taken) :
                    c.status = (IF DecisionOf(run) = "accept"
                                THEN "accepted" ELSE "modified")
              /\ [file |-> taken, status |-> "processed"] \in file_records
        /\ run.outcome = "errored" => RowsFor(taken) = {}

\* C24: for a skip decision process_file returns skipped, with one
\* classification row, rejected, recorded, the file status skipped, and the
\* mover not invoked.
C24_SkipRecordsRejected ==
    EndedWith({"skip"}) =>
        /\ run.outcome = "skipped"
        /\ Cardinality(RowsFor(taken)) = 1
        /\ \A c \in RowsFor(taken) : c.status = "rejected"
        /\ [file |-> taken, status |-> "skipped"] \in file_records
        /\ run.move_result = "none"

\* C25: when process_file ends errored, the File row of the file has status
\* error.
C25_ErroredHasErrorStatus ==
    run.outcome = "errored" =>
        [file |-> taken, status |-> "error"] \in file_records

\* C26: the loop starts process_file for a path only when no call is in
\* progress and every call started before has returned, and the path is the
\* oldest one not yet taken; what the watcher's callback enqueues meanwhile
\* goes behind the paths already there.
C26_InEnqueueOrder ==
    [][/\ taken' # taken =>
             /\ ppc = "loop" /\ ppc' # "loop"
             /\ taken' = taken + 1
             /\ Len(results) = taken
             /\ run'.kind = file_paths[taken + 1]
       /\ SubSeq(file_paths', 1, Len(file_paths)) = file_paths
      ]_vars

\* the run command is in its second call, the first has returned, and a
\* third path is waiting in the queue
C26_Witness ==
    /\ pmode = "run" /\ taken = 2 /\ Len(results) = 1
    /\ ppc \notin {"loop", "off"}
    /\ file_paths = <<"missing", "readable", "missing">>
    /\ run.kind = "readable"

(***************************************************************************)
(* Properties of the parsing of replies.                                   *)
(***************************************************************************)
\* the replies the claim calls not of the required shape
NotRequiredShape(resp) ==
    \/ resp.span # "object"
    \/ /\ resp.span = "object"
       /\ \/ resp.destination_folder.t \notin {"absent", "str"}
          \/ resp.confidence.t \in {"null", "list"}
          \/ resp.confidence.t = "str" /\ FloatOfString(resp.confidence.v) = -1

\* C15: for every reply that is not a JSON object of the required shape (no
\* brace span, invalid JSON, a destination_folder that is not a string, a
\* confidence that is null or not a number) _parse_response raises nothing
\* and returns destination_folder "Unsorted", no tags, confidence 0 and
\* success false.
C15_MalformedReplyFails ==
    (parse_pc = "done" /\ NotRequiredShape(response)) =>
        /\ parse_out.raised = ""
        /\ ~parse_out.success
        /\ parse_out.destination_folder = Unsorted
        /\ parse_out.tags = <<>>
        /\ parse_out.confidence = 0


(***************************************************************************)
(* Properties of the index manager.                                        *)
(***************************************************************************)
Hashes == {ComputeContentHash(text) : text \in Texts}
\* the last call was made by this step, on this id, and returned True
Returned(op, file_id) ==
    /\ icalls' # icalls
    /\ ilast'.op = op /\ ilast'.file_id = file_id /\ ilast'.ok

\* C18: after index_file stored file_id with a text of content hash h,
\* is_indexed(file_id) is true, is_indexed(file_id, h) is true and
\* is_indexed(file_id, h') is false for every other hash, and the answers stay
\* so until the next index_file or remove_file of that id that succeeds;
\* is_indexed is false for an id that was never stored, and after its removal.
C18_IsIndexedFollowsLastUpsert ==
    /\ \A file_id \in FileIds, h \in Hashes \cup {NoHash} :
            ~IsIndexed(collection, file_id, h, TRUE)
    /\ [][\A file_id \in FileIds :
            /\ Returned("index_file", file_id) =>
                  /\ IsIndexed(collection', file_id, NoHash, TRUE)
                  /\ \A text \in Texts :
                        IsIndexed(collection', file_id,
                                  ComputeContentHash(text), TRUE)
                            <=> text = ilast'.text
            /\ Returned("remove_file", file_id) =>
                  \A h \in Hashes \cup {NoHash} :
                        ~IsIndexed(collection', file_id, h, TRUE)
            /\ ~(Returned("index_file", file_id)
                    \/ Returned("remove_file", file_id)) =>
                  \A h \in Hashes \cup {NoHash} :
                        IsIndexed(collection', file_id, h, TRUE)
                            = IsIndexed(collection, file_id, h, TRUE)
         ]_vars

\* a file was stored, stored again with another text, and a call on the other
\* id followed
C18_Witness ==
    /\ icalls = 3
    /\ ilast.op = "index_file" /\ ilast.ok /\ ilast.file_id = "file_2"
    /\ IsIndexed(collection, "file_1", NoHash, TRUE)
    /\ IsIndexed(collection, "file_1", ComputeContentHash(Text("q", 1200)), TRUE)
    /\ ~IsIndexed(collection, "file_1", ComputeContentHash(Text("p", 400)), TRUE)
    /\ GetFile(collection, "file_1").metadata.indexed_at = 2

\* what get_file returns for the arguments of an index_file call: the
\* metadata in the form the store keeps it, and the snippet
StoredAs(call, t) ==
    [found |-> TRUE,
     metadata |-> FromChromaMetadata(ToChromaMetadata(
                      BuildMetadata(call.file_id, call.args[1], call.text,
                                    call.args[3], call.args[4],
                                    call.args[5].ctime, call.args[5].mtime,
                                    call.args[5].size, t))),
     document |-> Prefix(call.text, SnippetLimit)]

\* C19: index_file on an id that is in the collection leaves
\* get_indexed_count unchanged, and after every index_file that succeeds
\* get_file of that id returns the metadata and the snippet of that call (the
\* last one), whatever was stored for the id before; calls on other ids and
\* calls that fail leave what get_file returns for an id unchanged.
C19_LastUpsertWins ==
    [][\A file_id \in FileIds :
         /\ Returned("index_file", file_id) =>
               /\ GetFile(collection, file_id).found =>
                     GetIndexedCount(collection') = GetIndexedCount(collection)
               /\ ~GetFile(collection, file_id).found =>
                     GetIndexedCount(collection') = GetIndexedCount(collection) + 1
               /\ GetFile(collection', file_id) = StoredAs(ilast', icalls')
               /\ GetFile(collection', file_id).metadata.content_hash
                     = ComputeContentHash(ilast'.text)
               /\ Cardinality(RowsOf(collection', file_id)) = 1
         /\ ~(Returned("index_file", file_id)
                 \/ Returned("remove_file", file_id)) =>
               GetFile(collection', file_id) = GetFile(collection, file_id)
      ]_vars

\* the same id was stored three times, with different texts, tags and
\* summaries, and the collection holds one row
C19_Witness ==
    /\ icalls = 3 /\ GetIndexedCount(collection) = 1
    /\ ilast.op = "index_file" /\ ilast.ok /\ ilast.file_id = "file_1"
    /\ ilast.text = Text("p", 2400) /\ ilast.args[3] # <<>>
    /\ GetFile(collection, "file_1") = StoredAs(ilast, 3)
    /\ GetFile(collection, "file_1").document = Text("p", 2000)
    /\ GetFile(collection, "file_1").metadata.content_summary = Text("q", 1000)

(***************************************************************************)
(* Properties of the indexing driver.                                      *)
(***************************************************************************)
\* C16: the file_id the driver derives from a path is the same in every
\* run, runs in different processes included.
C16_FileIdStable ==
    \A x \in derived, y \in derived : x[1] = y[1] => x[2] = y[2]

Indexable(text) == text # EmptyText /\ ~IsBlank(text)
FilesCounted(report, counter) ==
    {k \in DOMAIN report.outcomes : report.outcomes[k] = counter}

\* C17: when the first run and a second run without force both go through
\* without a failure, on a tree without links, the second run on the
\* unchanged tree reports
\* indexed = 0 and already_indexed = the number the first run indexed, and
\* when the text of one file changed in between, the second run indexes
\* exactly that file and counts the files the first run indexed, that one
\* apart, as already indexed.
C17_RerunSkipsUnchanged ==
    (Len(reports) >= 2 /\ reports[1].clean /\ reports[2].clean
        /\ ~reports[2].force /\ \A k \in DOMAIN links : links[k] = k) =>
        LET first == reports[1]
            second == reports[2]
            diff == {k \in DOMAIN first.tree : first.tree[k] # second.tree[k]}
        IN  /\ diff = {} =>
                  /\ second.stats.indexed = 0
                  /\ second.stats.already_indexed = first.stats.indexed
            /\ (diff # {} /\ \A k \in diff : Indexable(second.tree[k])) =>
                  /\ FilesCounted(second, "indexed") = diff
                  /\ FilesCounted(second, "already_indexed")
                        = FilesCounted(first, "indexed") \ diff

Total(st) == st.indexed + st.already_indexed + st.skipped + st.errors

C21_EmptyTextSkipped ==
    [][(pos' = pos + 1 /\ ~faulted' /\ IsBlank(tree[pos + 1])) =>
          /\ outcomes'[pos + 1] = "skipped"
          /\ stats'.errors = stats.errors
          /\ collection' = collection
      ]_vars

\* the canonical path of the file an entry of the collection was stored for
CanonicalOf(lk, file_path) ==
    Resolve(lk, CHOOSE k \in 1..Len(CandidateFiles) :
                    CandidateFiles[k] = file_path)

\* C22: after a run has ended, every entry of the collection the run
\* upserted has a File row for its canonical path, with status processed, and
\* no path has two File rows.
C22_EntriesHaveFileRecord ==
    (ipc = "idle" /\ nruns >= 1) =>
        /\ \A i \in 1..Len(collection) :
              collection[i].metadata.indexed_at = IsoFormat(nruns) =>
                 \E r \in db_files :
                    /\ r.path = CanonicalOf(links, collection[i].metadata.file_path)
                    /\ r.status = "processed"
        /\ \A r1, r2 \in db_files : r1.path = r2.path => r1 = r2


(***************************************************************************)
(* Properties of the Ollama client.                                        *)
(***************************************************************************)
\* a reply the loop returns from: status 200
Ok200(resp) == resp.kind = "http" /\ resp.status = 200
\* an attempt that ended in a transport error, a timeout or a non-2xx status
FailedAttempt(resp) ==
    \/ resp.kind \in {"timeout", "request_error"}
    \/ resp.kind = "http" /\ resp.status \notin 200..299

\* C27: generate makes one request and then at most max_retries retries; the
\* first reply with status 200 is the last request of the call and its
\* response text is what the call returns; when every attempt ended in a
\* transport error, a timeout or a non-2xx status the call returns none, and
\* it has ended by the time max_retries attempts were made.
C27_BoundedRetries ==
    /\ Len(replies) <= 1 + max_retries
    /\ gen_out = Running => Len(replies) < max_retries
    /\ gen_out # Running => Len(replies) >= 1
    /\ \A i \in DOMAIN replies :
           Ok200(replies[i]) =>
               /\ i = Len(replies)
               /\ replies[i].body = "text" => gen_out = ReturnedText("text")
               /\ replies[i].body = "no_key" => gen_out = ReturnedText("")
    /\ gen_out.kind = "returned" => Ok200(replies[Len(replies)])
    /\ (Len(replies) = max_retries /\ \A i \in DOMAIN replies : FailedAttempt(replies[i]))
           => gen_out = ReturnedNone
    /\ gen_out = ReturnedNone =>
           Len(replies) = max_retries /\ \A i \in DOMAIN replies : ~Ok200(replies[i])
C27_Witness ==
    /\ max_retries = 3
    /\ replies = <<[kind |-> "timeout", status |-> 0, body |-> "none"],
                   HttpReply(500, "none"), HttpReply(200, "text")>>
    /\ gen_out = ReturnedText("text")

(***************************************************************************)
(* Properties of the search engine.                                        *)
(***************************************************************************)
\* the nearest store results the claim speaks of, and those that pass
Nearest == StoreSearch(store_size, store_kind, Min(2 * squery.limit, 100))
Passing == SelectSeq(Nearest, LAMBDA e : PassesPostFilters(e, squery.filters))

\* C28: a search with a valid query returns exactly the first `limit`
\* entries, in store order, among the min(2 * limit, 100) nearest store
\* results that pass the post-filters: never more than `limit`, never one
\* that fails a filter, never in a different order.
C28_FirstLimitPassing ==
    squery.query = "ok" =>
        /\ hits = SubSeq(Passing, 1, Min(squery.limit, Len(Passing)))
        /\ Len(hits) <= Max(squery.limit, 0)
        /\ \A i \in DOMAIN hits : PassesPostFilters(hits[i], squery.filters)
        /\ \A i, j \in DOMAIN hits : i < j => hits[i].file_id < hits[j].file_id
C28_Witness ==
    /\ squery.query = "ok" /\ squery.limit = 60 /\ store_size = 120
    /\ squery.filters = [after |-> 0, before |-> 0, tag |-> <<"work">>]
    /\ Len(hits) = 33
    /\ hits[33].file_id = 99

\* C29: after and before form an open interval on modified_at: every
\* returned entry that has a modified_at is strictly later than `after` and
\* strictly earlier than `before`, and an entry with no modified_at is never
\* left out by the date filters.
C29_OpenInterval ==
    squery.query = "ok" =>
        /\ \A i \in DOMAIN hits :
               hits[i].modified_at # 0 =>
                   /\ squery.filters.after # 0 =>
                          hits[i].modified_at > squery.filters.after
                   /\ squery.filters.before # 0 =>
                          hits[i].modified_at < squery.filters.before
        /\ \A k \in DOMAIN Nearest :
               (/\ Nearest[k].modified_at = 0
                /\ PassesPostFilters(Nearest[k], [squery.filters EXCEPT !.after = 0, !.before = 0])
                /\ Len(hits) < squery.limit)
                   => \E i \in DOMAIN hits : hits[i] = Nearest[k]


(***************************************************************************)
(* Properties of the folder scanner.                                       *)
(***************************************************************************)
\* C32: in every scan result each node's depth is at most max_depth, a
\* child's depth is its parent's depth plus one, a directory reached at
\* depth max_depth is in the result without children, and with
\* max_depth = 0 only the root nodes are returned.
C32_DepthBounded ==
    scan_args # NoScan =>
        \A k \in DOMAIN scan_result.roots :
            LET t == scan_result.roots[k] IN
            /\ \A n \in t :
                   /\ n.depth <= scan_args.max_depth
                   /\ n.depth = Cardinality({m \in t : IsPrefix(m.path, n.path)}) - 1
                   /\ \A c \in n.children :
                          \E m \in t : m.path = c /\ m.depth = n.depth + 1
                   /\ n.depth = scan_args.max_depth => n.children = {}
                   /\ (n.depth < scan_args.max_depth /\ n.path \notin fs_denied) =>
                          \A c \in fs_dirs :
                              (Len(c) > 1 /\ Parent(c) = n.path /\ ~ShouldExclude(c))
                                  => c \in n.children
            /\ scan_args.max_depth = 0 => Cardinality(t) = 1
C32_Witness ==
    /\ scan_args = [paths |-> <<RootDir>>, max_depth |-> 2]
    /\ <<"r", "a", "b", "c">> \in fs_dirs
    /\ FolderNode(<<"r", "a", "b">>, 2, {}) \in scan_result.roots[1]

=============================================================================
